---- MODULE Spec2Model ----
(***************************************************************************)
(* github-monitor: the repository synchronisation engine.                  *)
(*                                                                         *)
(*   Spec    the store (PostgreSQL tables repositories / commits under     *)
(*           READ COMMITTED), RepositoryService.SyncRepository inside      *)
(*           PostgresDB.WithTransaction, PostgresDB.ResetRepository, the   *)
(*           poll worker SyncWorker.Run, the start-up bootstrap of main    *)
(*           and the monitor / reset-collection handlers.                  *)
(*   SpecRL  the rate limiter RateLimiter.Middleware shared by concurrent  *)
(*           callers of one github.Client, with the client's status check. *)
(*                                                                         *)
(* Variables written h_... are history variables: they record what a call  *)
(* saw or did so that properties can speak about it; no action reads them  *)
(* in a guard or to compute program state.                                 *)
(***************************************************************************)
EXTENDS Integers, Sequences, FiniteSets, Bags, TLC

\* ---------------------------------------------------------------- bounds
\* The clock runs over 1..MaxTime (time.Now()); 0 is the zero time.Time{}.
MaxTime == 2
\* Upstream commits are the shas 1..MaxSha; sha s is authored at time s.
MaxSha == 2

\* ------------------------------------------------------------- constants
\* A NULL last_commit_fetched_at (sql.NullTime not Valid, nil *time.Time).
NULL == -1
\* time.Time{}: SyncRepository's since for "full history".
ZeroTime == 0

\* The since values a request body carries: none (the zero time) or the
\* latest instant.
SinceInputs == {ZeroTime, MaxTime}
Shas == 1..MaxSha

\* The name a caller gives (owner + "/" + name) ...
ReqNames == {"o/r"}
\* ... and the full_name the upstream reports for it (github.Repository.FullName):
\* the upstream resolves owner and name without regard to case and reports
\* the repository's own spelling.
FullName(req) == "o/r"
\* cfg.DefaultRepository
DefaultRepository == "o/r"

\* Author date of an upstream commit (commit.Commit.Author.Date).
AuthorDate(sha) == sha

\* Processes that call into the service: main (bootstrap), the poll worker
\* started by main, and one HTTP request being served at a time.
WorkerIds == {"w1"}
HandlerIds == {"h1"}
Procs == {"main"} \cup WorkerIds \cup HandlerIds

\* Callers whose context is main's cancellable ctx (worker.Run(ctx),
\* repoService.SyncRepository(ctx, ...) in main); handlers use r.Context().
UsesMainCtx(p) == p \in {"main"} \cup WorkerIds

VARIABLES
    clock,          \* time.Now()
    upstream,       \* shas of the commits the remote platform holds for o/r
    repositories,   \* committed rows of table repositories
    commits,        \* committed rows of table commits (a bag: the table has a serial id)
    tx,             \* tx[p]: the open sql.Tx of p, its uncommitted writes
    sync,           \* sync[p]: p's position in SyncRepository and its locals
    wst,            \* wst[w]: position of SyncWorker.Run
    hst,            \* hst[h]: the request a handler serves and its position
    mpc,            \* position of main
    cancelled,      \* ctx.Done() of main's context is closed
    h_pre,          \* h_pre[p]: the store as it would be had p's running call written nothing
    h_fault,        \* h_fault[p]: a driver/upstream failure was injected into p's running call
    h_syncWm,       \* watermark stored by the latest committed SyncRepository (NULL: none yet)
    h_settled,      \* the latest committed SyncRepository listed the complete, final upstream
                    \* (upstream = Shas), and no ResetRepository statement ran since
    rl,             \* RateLimiter fields: remaining, reset, retryAfter
    mu,             \* RateLimiter.mu: the caller holding it, or "free"
    rlNow,          \* time.Now() of the limiter's process
    call,           \* call[c]: a caller's position in RateLimiter.Middleware and the client
    pg,             \* a Client.ListCommits call: its options, locals, requests and responses
    db,             \* a client of PostgresDB: its position, the values returned to it
    mon,            \* the process of main: its bootstrap, the Poll Workers it runs,
                    \* the add and monitor requests its API serves
    fx,             \* one call of a function of the client or of package errors:
                    \* its input and what it returned
    add             \* an AddRepository request with the SyncRepository it runs: its
                    \* position and its name

syncVars == <<clock, upstream, repositories, commits, tx, sync, wst, hst, mpc,
              cancelled, h_pre, h_fault, h_syncWm, h_settled>>
rlVars == <<rl, mu, rlNow, call>>
pgVars == <<pg>>
dbVars == <<db>>
apiVars == <<mon, fx, add>>
vars == <<clock, upstream, repositories, commits, tx, sync, wst, hst, mpc,
          cancelled, h_pre, h_fault, h_syncWm, h_settled, rl, mu, rlNow, call, pg, db,
          mon, fx, add>>

\* ------------------------------------------------------------------ store
Store == [repositories |-> repositories, commits |-> commits]
NoStore == [repositories |-> {}, commits |-> EmptyBag, none |-> TRUE]

NoTx == [active |-> FALSE, wrepos |-> {}, wcommits |-> {}]

\* SERIAL PRIMARY KEY: an id that no row, committed or written by an open
\* transaction, carries.
NextId ==
    LET rows == repositories \cup UNION {tx[q].wrepos : q \in Procs}
    IN  IF rows = {} THEN 1
        ELSE 1 + (CHOOSE m \in {r.id : r \in rows} : \A r \in rows : r.id <= m)

\* Rows `rows` with the written versions `w` replacing the rows of the same id.
ApplyRepos(rows, w) == {r \in rows : \A x \in w : x.id # r.id} \cup w

\* What the statements of p's transaction read: the committed rows, with p's
\* own writes visible (READ COMMITTED).
TxRepositories(p) == ApplyRepos(repositories, tx[p].wrepos)

CommitKey(c) == [sha |-> c.sha, repository_id |-> c.repository_id]

TxCommitKeys(p) ==
    {CommitKey(c) : c \in BagToSet(commits)} \cup {CommitKey(c) : c \in tx[p].wcommits}

\* Variant: writers of a repository row do not wait for one another.
RowNeverLocked(p, name) == FALSE

\* A row of repositories with this name is written (row lock, or a pending
\* insert of the unique name) by another open transaction: a statement that
\* writes that row waits until the transaction ends.
RowLockedByOther(p, name) ==
    \E q \in Procs \ {p} : tx[q].active /\ \E w \in tx[q].wrepos : w.name = name

\* A commit row with this key is being inserted by another open transaction:
\* INSERT ... ON CONFLICT waits for it.
KeyInsertedByOther(p, key) ==
    \E q \in Procs \ {p} : tx[q].active /\ \E c \in tx[q].wcommits : CommitKey(c) = key

\* Variant: the writes are applied whatever fn and tx.Commit() returned.
TxOutcomeCommitAlways(S, p, fnOk, commitOk) ==
    [repositories |-> ApplyRepos(S.repositories, tx[p].wrepos),
     commits |-> S.commits (+) SetToBag(tx[p].wcommits)]

\* PostgresDB.WithTransaction, its end: fn returned an error -> tx.Rollback();
\* otherwise tx.Commit(), which may itself fail. The store S afterwards.
TxOutcome(S, p, fnOk, commitOk) ==
    IF fnOk /\ commitOk
    THEN [repositories |-> ApplyRepos(S.repositories, tx[p].wrepos),
          commits |-> S.commits (+) SetToBag(tx[p].wcommits)]
    ELSE S

\* Variant: the error of tx.Commit() is dropped.
TxReturnCommitIgnored(fn, rollbackOk, commitOk) ==
    CASE fn = "nil" -> "nil"
      [] fn = "err" /\ rollbackOk -> "fn error"
      [] fn = "err" /\ ~rollbackOk -> "rollback error"
      [] fn = "panic" -> "panic"

\* What WithTransaction returns: nil after a commit; the commit's error; the
\* error of fn after a rollback; the error built from fn's error and the
\* rollback's when tx.Rollback() failed; a panic of fn, raised again.
TxReturn(fn, rollbackOk, commitOk) ==
    CASE fn = "nil" /\ commitOk -> "nil"
      [] fn = "nil" /\ ~commitOk -> "commit error"
      [] fn = "err" /\ rollbackOk -> "fn error"
      [] fn = "err" /\ ~rollbackOk -> "rollback error"
      [] fn = "panic" -> "panic"

\* Variant: ON CONFLICT(name) DO NOTHING.
UpsertRepositoryTxDoNothing(p, repo) ==
    LET ex == {r \in TxRepositories(p) : r.name = repo.name}
    IN  IF ex = {}
        THEN [id |-> NextId, name |-> repo.name, meta |-> repo.meta,
              last_commit_fetched_at |-> NULL]
        ELSE CHOOSE r \in ex : TRUE

\* Variant: the DO UPDATE SET list also carries last_commit_fetched_at =
\* EXCLUDED.last_commit_fetched_at, the NULL of the proposed row.
UpsertRepositoryTxOverwritesWatermark(p, repo) ==
    LET ex == {r \in TxRepositories(p) : r.name = repo.name}
    IN  IF ex = {}
        THEN [id |-> NextId, name |-> repo.name, meta |-> repo.meta,
              last_commit_fetched_at |-> NULL]
        ELSE [(CHOOSE r \in ex : TRUE) EXCEPT !.meta = repo.meta,
                                              !.last_commit_fetched_at = NULL]

\* PostgresDB.UpsertRepositoryTx: INSERT ... ON CONFLICT(name) DO UPDATE SET
\* <metadata> RETURNING id, last_commit_fetched_at. The row it writes.
UpsertRepositoryTx(p, repo) ==
    LET ex == {r \in TxRepositories(p) : r.name = repo.name}
    IN  IF ex = {}
        THEN [id |-> NextId, name |-> repo.name, meta |-> repo.meta,
              last_commit_fetched_at |-> NULL]
        ELSE [(CHOOSE r \in ex : TRUE) EXCEPT !.meta = repo.meta]

\* Variant: the row is inserted whatever the table holds.
InsertCommitTxAlways(p, c) ==
    [wcommits |-> tx[p].wcommits \cup {c}, err |-> FALSE]

\* Variant: a plain INSERT, which fails on the unique key.
InsertCommitTxNoConflictClause(p, c) ==
    IF CommitKey(c) \in TxCommitKeys(p)
    THEN [wcommits |-> tx[p].wcommits, err |-> TRUE]
    ELSE [wcommits |-> tx[p].wcommits \cup {c}, err |-> FALSE]

\* PostgresDB.InsertCommitTx: INSERT ... ON CONFLICT(sha, repository_id) DO
\* NOTHING. The transaction's inserted rows afterwards, and whether the
\* statement reported an error.
InsertCommitTx(p, c) ==
    IF CommitKey(c) \in TxCommitKeys(p)
    THEN [wcommits |-> tx[p].wcommits, err |-> FALSE]
    ELSE [wcommits |-> tx[p].wcommits \cup {c}, err |-> FALSE]

\* PostgresDB.UpdateRepositoryTx: UPDATE repositories SET
\* last_commit_fetched_at = $1 WHERE id = $2. The transaction's written rows afterwards.
UpdateRepositoryTx(p, repo) ==
    LET hit == {r \in TxRepositories(p) : r.id = repo.id}
    IN  {w \in tx[p].wrepos : w.id # repo.id}
        \cup {[r EXCEPT !.last_commit_fetched_at = repo.last_commit_fetched_at] : r \in hit}

\* PostgresDB.GetRepository: the committed row of that name ({} for sql.ErrNoRows).
GetRepository(name) == {r \in repositories : r.name = name}

\* PostgresDB.GetAllRepositories: SELECT name FROM repositories.
GetAllRepositories == {r.name : r \in repositories}

\* PostgresDB.ResetRepository, first statement: DELETE FROM commits WHERE
\* repository_id = (SELECT id FROM repositories WHERE name = $1).
ResetDelete(S, name) ==
    LET ids == {r.id : r \in {x \in S.repositories : x.name = name}}
        keep == {c \in BagToSet(S.commits) : c.repository_id \notin ids}
    IN  [S EXCEPT !.commits = [c \in keep |-> S.commits[c]]]

\* PostgresDB.ResetRepository, second statement: UPDATE repositories SET
\* last_commit_fetched_at = $1 WHERE name = $2.
ResetUpdate(S, name, since) ==
    [S EXCEPT !.repositories =
        {IF r.name = name THEN [r EXCEPT !.last_commit_fetched_at = since] ELSE r
         : r \in S.repositories}]

\* ----------------------------------------------------------------- client
\* The shas of a set in the order upstream lists them (newest first).
RECURSIVE NewestFirst(_)
NewestFirst(S) ==
    IF S = {} THEN <<>>
    ELSE LET m == CHOOSE x \in S : \A y \in S : AuthorDate(y) <= AuthorDate(x)
         IN  <<m>> \o NewestFirst(S \ {m})

\* Client.ListCommits with opts.Since: no since parameter for the zero time,
\* otherwise upstream returns the commits dated at or after since.
ListCommits(since) ==
    NewestFirst({s \in upstream : since = ZeroTime \/ AuthorDate(s) >= since})

\* Client.GetRepository: the metadata upstream reports now (the counters and
\* the description change at the latest instant).
GetRepositoryMeta(req) == [name |-> FullName(req), meta |-> IF clock < MaxTime THEN 1 ELSE 2]

\* ------------------------------------------------ RepositoryService.SyncRepository
NoRepo == [id |-> 0, name |-> "", meta |-> 0, last_commit_fetched_at |-> NULL]
\* err: the stage whose error ended the call ("ok": none); ret: what
\* WithTransaction returned to SyncRepository, which returns it unchanged.
\* h_full: ListCommits ran when upstream was complete (upstream = Shas) and
\* no statement of ResetRepository ran since; h_wrote: rows the transaction
\* had written when it ended (history fields).
NoSync == [pc |-> "none", name |-> "", since |-> ZeroTime, dbRepo |-> NoRepo,
           todo |-> <<>>, err |-> "none", ret |-> "none", h_full |-> FALSE,
           h_wrote |-> 0]

\* Outcomes a driver or upstream call of p can have: it succeeds or fails, and
\* only fails once p's context is cancelled.
Ok(p) == IF UsesMainCtx(p) /\ cancelled THEN {FALSE} ELSE BOOLEAN

\* now := time.Now(); dbRepo.LastCommitFetchedAt = &now
SyncWatermark(s, now) == now

\* The stores the other running calls would see had they written nothing,
\* after p's transaction ended.
PreAfterTx(p, fnOk, commitOk) ==
    [q \in Procs |->
        IF q = p \/ "none" \in DOMAIN h_pre[q] THEN h_pre[q]
        ELSE TxOutcome(h_pre[q], p, fnOk, commitOk)]

\* p calls SyncRepository(ctx, owner, name, since).
StartSync(p, name, since) ==
    /\ sync' = [sync EXCEPT ![p] = [NoSync EXCEPT !.pc = "begin", !.name = name,
                                                  !.since = since]]
    /\ h_pre' = [h_pre EXCEPT ![p] = Store]
    /\ h_fault' = [h_fault EXCEPT ![p] = FALSE]

\* Outcomes of the tx.Rollback() that follows a failed stage: none is called
\* when BeginTx failed; once p's context is cancelled database/sql rolls the
\* transaction back on its own, and tx.Rollback() returns sql.ErrTxDone when
\* it comes second. (Rollbacks failing for another reason are left out.)
RollbackOutcomes(p, stage) ==
    IF stage # "begin" /\ UsesMainCtx(p) /\ cancelled THEN BOOLEAN ELSE {TRUE}

\* fn returned an error at `stage` (or BeginTx failed): tx.Rollback(), which
\* may fail, and the error WithTransaction returns for it.
SyncAbort(p, stage, injected) ==
    LET S == TxOutcome(Store, p, FALSE, TRUE)
    IN  /\ repositories' = S.repositories
        /\ commits' = S.commits
        /\ tx' = [tx EXCEPT ![p] = NoTx]
        /\ \E rollbackOk \in RollbackOutcomes(p, stage) :
             sync' = [sync EXCEPT ![p] = [NoSync EXCEPT !.pc = "ret", !.name = sync[p].name,
                            !.err = stage,
                            !.ret = IF stage = "begin" THEN "begin error"
                                    ELSE TxReturn("err", rollbackOk, TRUE),
                            !.h_wrote = Cardinality(tx[p].wrepos) + Cardinality(tx[p].wcommits)]]
        /\ h_pre' = PreAfterTx(p, FALSE, TRUE)
        /\ h_fault' = [h_fault EXCEPT ![p] = injected]
        /\ UNCHANGED <<clock, upstream, wst, hst, mpc, cancelled, h_syncWm, h_settled>>

\* p.db.BeginTx(ctx, nil)
SyncBeginTx(p) ==
    /\ sync[p].pc = "begin"
    /\ \E ok \in Ok(p) :
        IF ok
        THEN /\ tx' = [tx EXCEPT ![p] = [NoTx EXCEPT !.active = TRUE]]
             /\ sync' = [sync EXCEPT ![p].pc = "meta"]
             /\ UNCHANGED <<clock, upstream, repositories, commits, wst, hst, mpc,
                            cancelled, h_pre, h_fault, h_syncWm, h_settled>>
        ELSE SyncAbort(p, "begin", TRUE)

\* s.githubClient.GetRepository(ctx, owner, name), inside the transaction
SyncGetRepository(p) ==
    /\ sync[p].pc = "meta"
    /\ \E ok \in Ok(p) :
        IF ok
        THEN /\ sync' = [sync EXCEPT ![p].pc = "upsert",
                                     ![p].dbRepo = [NoRepo EXCEPT
                                         !.name = GetRepositoryMeta(sync[p].name).name,
                                         !.meta = GetRepositoryMeta(sync[p].name).meta]]
             /\ UNCHANGED <<clock, upstream, repositories, commits, tx, wst, hst, mpc,
                            cancelled, h_pre, h_fault, h_syncWm, h_settled>>
        ELSE SyncAbort(p, "meta", TRUE)

\* s.db.UpsertRepositoryTx(ctx, tx, &dbRepo)
SyncUpsert(p) ==
    /\ sync[p].pc = "upsert"
    /\ ~RowLockedByOther(p, sync[p].dbRepo.name)
    /\ \E ok \in Ok(p) :
        IF ok
        THEN LET row == UpsertRepositoryTx(p, sync[p].dbRepo)
             IN  /\ tx' = [tx EXCEPT ![p].wrepos =
                              {w \in tx[p].wrepos : w.id # row.id} \cup {row}]
                 /\ sync' = [sync EXCEPT ![p].pc = "list",
                                 ![p].dbRepo.id = row.id,
                                 ![p].dbRepo.last_commit_fetched_at =
                                     row.last_commit_fetched_at]
                 /\ UNCHANGED <<clock, upstream, repositories, commits, wst, hst, mpc,
                                cancelled, h_pre, h_fault, h_syncWm, h_settled>>
        ELSE SyncAbort(p, "upsert", TRUE)

\* s.githubClient.ListCommits(ctx, owner, name, CommitListOptions{Since: since})
SyncListCommits(p) ==
    /\ sync[p].pc = "list"
    /\ \E ok \in Ok(p) :
        IF ok
        THEN /\ sync' = [sync EXCEPT ![p].pc = "insert",
                                     ![p].todo = ListCommits(sync[p].since),
                                     ![p].h_full = (upstream = Shas)]
             /\ UNCHANGED <<clock, upstream, repositories, commits, tx, wst, hst, mpc,
                            cancelled, h_pre, h_fault, h_syncWm, h_settled>>
        ELSE SyncAbort(p, "list", TRUE)

\* for _, commit := range commits { s.db.InsertCommitTx(ctx, tx, &dbCommit) }
SyncInsertCommit(p) ==
    /\ sync[p].pc = "insert"
    /\ sync[p].todo # <<>>
    /\ LET c == [sha |-> Head(sync[p].todo), repository_id |-> sync[p].dbRepo.id,
                 author_date |-> AuthorDate(Head(sync[p].todo))]
       IN  /\ ~KeyInsertedByOther(p, CommitKey(c))
           /\ \E ok \in Ok(p) :
                IF ok /\ ~InsertCommitTx(p, c).err
                THEN /\ tx' = [tx EXCEPT ![p].wcommits = InsertCommitTx(p, c).wcommits]
                     /\ sync' = [sync EXCEPT ![p].todo = Tail(sync[p].todo)]
                     /\ UNCHANGED <<clock, upstream, repositories, commits, wst, hst,
                                    mpc, cancelled, h_pre, h_fault, h_syncWm, h_settled>>
                ELSE SyncAbort(p, "insert", ~ok)

\* s.db.UpdateRepositoryTx(ctx, tx, &dbRepo) with LastCommitFetchedAt = now
SyncUpdateRepository(p) ==
    /\ sync[p].pc = "insert"
    /\ sync[p].todo = <<>>
    /\ \E ok \in Ok(p) :
        IF ok
        THEN LET repo == [sync[p].dbRepo EXCEPT
                             !.last_commit_fetched_at = SyncWatermark(sync[p], clock)]
             IN  /\ tx' = [tx EXCEPT ![p].wrepos = UpdateRepositoryTx(p, repo)]
                 /\ sync' = [sync EXCEPT ![p].pc = "commit", ![p].dbRepo = repo]
                 /\ UNCHANGED <<clock, upstream, repositories, commits, wst, hst, mpc,
                                cancelled, h_pre, h_fault, h_syncWm, h_settled>>
        ELSE SyncAbort(p, "update", TRUE)

\* fn returned nil: tx.Commit()
SyncCommit(p) ==
    /\ sync[p].pc = "commit"
    /\ \E ok \in Ok(p) :
        LET S == TxOutcome(Store, p, TRUE, ok)
        IN  /\ repositories' = S.repositories
            /\ commits' = S.commits
            /\ tx' = [tx EXCEPT ![p] = NoTx]
            /\ sync' = [sync EXCEPT ![p] = [NoSync EXCEPT !.pc = "ret", !.name = sync[p].name,
                            !.err = IF ok THEN "ok" ELSE "commit",
                            !.ret = TxReturn("nil", TRUE, ok),
                            !.h_wrote = Cardinality(tx[p].wrepos) + Cardinality(tx[p].wcommits)]]
            /\ h_pre' = PreAfterTx(p, TRUE, ok)
            /\ h_fault' = [h_fault EXCEPT ![p] = h_fault[p] \/ ~ok]
            /\ h_syncWm' = IF ok THEN sync[p].dbRepo.last_commit_fetched_at ELSE h_syncWm
            /\ h_settled' = IF ok THEN sync[p].h_full ELSE h_settled
            /\ UNCHANGED <<clock, upstream, wst, hst, mpc, cancelled>>

\* The caller has the result of SyncRepository.
EndSync(p) ==
    /\ sync' = [sync EXCEPT ![p] = NoSync]
    /\ h_pre' = [h_pre EXCEPT ![p] = NoStore]
    /\ h_fault' = [h_fault EXCEPT ![p] = FALSE]

\* ------------------------------------------------------------ SyncWorker.Run
WorkerOff == [pc |-> "off", name |-> ""]

\* err := w.service.SyncRepository(ctx, w.owner, w.repo, time.Time{})
WorkerInitialSync(w) ==
    /\ wst[w].pc = "start"
    /\ wst' = [wst EXCEPT ![w].pc = "initial"]
    /\ StartSync(w, wst[w].name, ZeroTime)
    /\ UNCHANGED <<clock, upstream, repositories, commits, tx, hst, mpc, cancelled,
                   h_syncWm, h_settled>>

\* Variant: the worker returns when the initial sync failed.
WorkerInitialDoneOrStop(w) ==
    /\ wst[w].pc = "initial"
    /\ sync[w].pc = "ret"
    /\ wst' = [wst EXCEPT ![w].pc = IF sync[w].err = "ok" THEN "waiting" ELSE "stopped"]
    /\ EndSync(w)
    /\ UNCHANGED <<clock, upstream, repositories, commits, tx, hst, mpc, cancelled,
                   h_syncWm, h_settled>>

\* the initial sync returned (an error is logged); the ticker is created
WorkerInitialDone(w) ==
    /\ wst[w].pc = "initial"
    /\ sync[w].pc = "ret"
    /\ wst' = [wst EXCEPT ![w].pc = "waiting"]
    /\ EndSync(w)
    /\ UNCHANGED <<clock, upstream, repositories, commits, tx, hst, mpc, cancelled,
                   h_syncWm, h_settled>>

\* select: case <-ticker.C
WorkerTick(w) ==
    /\ wst[w].pc = "waiting"
    /\ wst' = [wst EXCEPT ![w].pc = "ticked"]
    /\ UNCHANGED <<clock, upstream, repositories, commits, tx, sync, hst, mpc,
                   cancelled, h_pre, h_fault, h_syncWm, h_settled>>

\* Variant: every tick syncs from the zero time.
TickSinceZero(repo) == ZeroTime

\* var since time.Time; if repo.LastCommitFetchedAt != nil { since = *repo.LastCommitFetchedAt }
TickSince(repo) ==
    IF repo.last_commit_fetched_at # NULL THEN repo.last_commit_fetched_at ELSE ZeroTime

\* repo, err := w.service.GetRepository(ctx, fullRepoName); on an error
\* `continue`, otherwise SyncRepository(ctx, owner, repo, since)
WorkerReadAndSync(w) ==
    /\ wst[w].pc = "ticked"
    /\ \E ok \in Ok(w) :
        LET found == GetRepository(wst[w].name)
        IN  IF ok /\ found # {}
            THEN LET repo == CHOOSE r \in found : TRUE
                 IN  /\ wst' = [wst EXCEPT ![w].pc = "syncing"]
                     /\ StartSync(w, wst[w].name, TickSince(repo))
            ELSE /\ wst' = [wst EXCEPT ![w].pc = "waiting"]
                 /\ UNCHANGED <<sync, h_pre, h_fault>>
    /\ UNCHANGED <<clock, upstream, repositories, commits, tx, hst, mpc, cancelled,
                   h_syncWm, h_settled>>

\* the tick's sync returned; its outcome is logged
WorkerSyncDone(w) ==
    /\ wst[w].pc = "syncing"
    /\ sync[w].pc = "ret"
    /\ wst' = [wst EXCEPT ![w].pc = "waiting"]
    /\ EndSync(w)
    /\ UNCHANGED <<clock, upstream, repositories, commits, tx, hst, mpc, cancelled,
                   h_syncWm, h_settled>>

\* Variant: the worker returns from the wait without the signal.
WorkerStopUnsignalled(w) ==
    /\ wst[w].pc = "waiting"
    /\ wst' = [wst EXCEPT ![w].pc = "stopped"]
    /\ UNCHANGED <<clock, upstream, repositories, commits, tx, sync, hst, mpc,
                   cancelled, h_pre, h_fault, h_syncWm, h_settled>>

\* select: case <-ctx.Done(): return
WorkerStop(w) ==
    /\ wst[w].pc = "waiting"
    /\ cancelled
    /\ wst' = [wst EXCEPT ![w].pc = "stopped"]
    /\ UNCHANGED <<clock, upstream, repositories, commits, tx, sync, hst, mpc,
                   cancelled, h_pre, h_fault, h_syncWm, h_settled>>

\* ---------------------------------------------------------------------- main
\* repositories, err := repoService.ListAllRepositories(ctx); with none found
\* (or an error, which is only logged) the default repository is synced
MainListRepositories ==
    /\ mpc = "list"
    /\ \E ok \in Ok("main") :
        LET names == IF ok THEN GetAllRepositories ELSE {}
        IN  IF names = {}
            THEN /\ mpc' = "sync"
                 /\ StartSync("main", DefaultRepository, ZeroTime)
            ELSE /\ mpc' = "start"
                 /\ UNCHANGED <<sync, h_pre, h_fault>>
    /\ UNCHANGED <<clock, upstream, repositories, commits, tx, wst, hst, cancelled,
                   h_syncWm, h_settled>>

\* the default repository's sync returned: os.Exit(1) on an error
MainSyncDone ==
    /\ mpc = "sync"
    /\ sync["main"].pc = "ret"
    /\ mpc' = IF sync["main"].err = "ok" THEN "start" ELSE "exited"
    /\ EndSync("main")
    /\ UNCHANGED <<clock, upstream, repositories, commits, tx, wst, hst, cancelled,
                   h_syncWm, h_settled>>

\* (reload the repositories;) for _, repo := range repositories { go w.Run(ctx) },
\* then the API server is started
MainStartWorkers ==
    /\ mpc = "start"
    /\ \E ok \in Ok("main") :
        IF ok
        THEN /\ \E f \in [GetAllRepositories -> WorkerIds] :
                  /\ \A a, b \in GetAllRepositories : f[a] = f[b] => a = b
                  /\ wst' = [w \in WorkerIds |->
                              IF \E n \in GetAllRepositories : f[n] = w
                              THEN [pc |-> "start",
                                    name |-> CHOOSE n \in GetAllRepositories : f[n] = w]
                              ELSE wst[w]]
             /\ mpc' = "serving"
        ELSE /\ mpc' = "exited"
             /\ UNCHANGED wst
    /\ UNCHANGED <<clock, upstream, repositories, commits, tx, sync, hst, cancelled,
                   h_pre, h_fault, h_syncWm, h_settled>>

\* <-sigChan: main returns, the deferred cancel() closes ctx.Done()
MainShutdown ==
    /\ mpc = "serving"
    /\ mpc' = "shutdown"
    /\ cancelled' = TRUE
    /\ UNCHANGED <<clock, upstream, repositories, commits, tx, sync, wst, hst,
                   h_pre, h_fault, h_syncWm, h_settled>>

\* ------------------------------------------------------------------ handlers
HandlerIdle == [pc |-> "idle", name |-> "", since |-> ZeroTime, err |-> FALSE]

\* RepositoryHandler.monitorRepository: SyncRepository(r.Context(), owner, repoName, request.Since)
MonitorRepository(h) ==
    /\ mpc = "serving"
    /\ hst[h].pc = "idle"
    /\ \E n \in ReqNames, since \in SinceInputs :
        /\ hst' = [hst EXCEPT ![h] = [HandlerIdle EXCEPT !.pc = "monitor", !.name = n]]
        /\ StartSync(h, n, since)
    /\ UNCHANGED <<clock, upstream, repositories, commits, tx, wst, mpc, cancelled,
                   h_syncWm, h_settled>>

\* monitorRepository writes its response
MonitorDone(h) ==
    /\ hst[h].pc = "monitor"
    /\ sync[h].pc = "ret"
    /\ hst' = [hst EXCEPT ![h] = HandlerIdle]
    /\ EndSync(h)
    /\ UNCHANGED <<clock, upstream, repositories, commits, tx, wst, mpc, cancelled,
                   h_syncWm, h_settled>>

\* The stores the other running calls would see had they written nothing,
\* after a statement of h's ResetRepository changed the store by `F`.
PreAfterReset(h, name, since, second) ==
    [q \in Procs |->
        IF q = h \/ "none" \in DOMAIN h_pre[q] THEN h_pre[q]
        ELSE IF second THEN ResetUpdate(h_pre[q], name, since)
        ELSE ResetDelete(h_pre[q], name)]

\* History only: the running syncs overlap a statement of ResetRepository.
ResetSeen == [q \in Procs |-> [sync[q] EXCEPT !.h_full = FALSE]]

\* RepositoryHandler.resetCollection -> PostgresDB.ResetRepository, first
\* statement (DELETE FROM commits ...), executed on its own with p.db.ExecContext
ResetDeleteCommits(h) ==
    /\ mpc = "serving"
    /\ hst[h].pc = "idle"
    /\ \E n \in ReqNames, since \in SinceInputs, ok \in Ok(h) :
        IF ok
        THEN /\ commits' = ResetDelete(Store, n).commits
             /\ hst' = [hst EXCEPT ![h] = [HandlerIdle EXCEPT !.pc = "reset", !.name = n,
                                                              !.since = since]]
             /\ h_pre' = [PreAfterReset(h, n, since, FALSE) EXCEPT ![h] = Store]
             /\ h_settled' = FALSE
             /\ sync' = ResetSeen
        ELSE /\ hst' = [hst EXCEPT ![h] = [HandlerIdle EXCEPT !.pc = "resetRet",
                            !.name = n, !.since = since, !.err = TRUE]]
             /\ h_pre' = [h_pre EXCEPT ![h] = Store]
             /\ UNCHANGED <<commits, h_settled, sync>>
    /\ UNCHANGED <<clock, upstream, repositories, tx, wst, mpc, cancelled,
                   h_fault, h_syncWm>>

\* PostgresDB.ResetRepository, second statement (UPDATE repositories SET
\* last_commit_fetched_at ...), executed on its own with p.db.ExecContext
ResetUpdateWatermark(h) ==
    /\ hst[h].pc = "reset"
    /\ ~RowLockedByOther(h, hst[h].name)
    /\ \E ok \in Ok(h) :
        IF ok
        THEN /\ repositories' = ResetUpdate(Store, hst[h].name, hst[h].since).repositories
             /\ hst' = [hst EXCEPT ![h].pc = "resetRet"]
             /\ h_pre' = PreAfterReset(h, hst[h].name, hst[h].since, TRUE)
             /\ h_settled' = FALSE
             /\ sync' = ResetSeen
        ELSE /\ hst' = [hst EXCEPT ![h].pc = "resetRet", ![h].err = TRUE]
             /\ UNCHANGED <<repositories, h_pre, h_settled, sync>>
    /\ UNCHANGED <<clock, upstream, commits, tx, wst, mpc, cancelled,
                   h_fault, h_syncWm>>

\* resetCollection writes its response
ResetDone(h) ==
    /\ hst[h].pc = "resetRet"
    /\ hst' = [hst EXCEPT ![h] = HandlerIdle]
    /\ h_pre' = [h_pre EXCEPT ![h] = NoStore]
    /\ UNCHANGED <<clock, upstream, repositories, commits, tx, sync, wst, mpc,
                   cancelled, h_fault, h_syncWm, h_settled>>

\* ------------------------------------------------------------- environment
\* time passes
Tick ==
    /\ clock < MaxTime
    /\ clock' = clock + 1
    /\ UNCHANGED <<upstream, repositories, commits, tx, sync, wst, hst, mpc,
                   cancelled, h_pre, h_fault, h_syncWm, h_settled>>

\* a commit is pushed to the upstream repository
UpstreamPush ==
    /\ \E s \in Shas \ upstream : upstream' = upstream \cup {s}
    /\ UNCHANGED <<clock, repositories, commits, tx, sync, wst, hst, mpc,
                   cancelled, h_pre, h_fault, h_syncWm, h_settled>>

\* ------------------------------------------------------------ rate limiter
\* The limiter's clock runs over 0..MaxNow; the limiter is created at 0.
MaxNow == 2

\* http.StatusTooManyRequests, the retryStatus of NewRateLimiter
RetryStatus == 429
\* remaining of NewRateLimiter
FullQuota == 5000
\* http.StatusOK, http.StatusNotFound, http.StatusInternalServerError
StatusOK == 200
StatusNotFound == 404
StatusInternalServerError == 500

\* Concurrent client operations (GetRepository / ListCommits requests of the
\* workers and handlers) that go through the one RateLimiter of the Client.
Callers == {"c1", "c2"}

Statuses == {StatusOK, StatusNotFound, RetryStatus, StatusInternalServerError}
\* A header value: NULL for a header that is absent or does not parse.
\* X-RateLimit-Remaining, X-RateLimit-Reset and Retry-After of a response.
Headers ==
    [remaining : {NULL, 0, 1}, reset : {NULL, MaxNow}, retry : {NULL} \cup (1..MaxNow)]
\* The outcome of RoundTrip when it returned an error and no response.
NetErr == 0

\* NewRateLimiter(): remaining 5000, reset time.Now(), retryAfter 0
NewRateLimiter == [remaining |-> FullQuota, reset |-> 0, retryAfter |-> 0]

\* Variant: the wait is taken only below zero.
NeedsWaitBelowZero(r, now) == r.remaining < 0 /\ now < r.reset

\* RateLimiter.waitIfNeeded, its condition: r.remaining <= 0 && now.Before(r.reset)
NeedsWait(r, now) == r.remaining <= 0 /\ now < r.reset

\* RateLimiter.updateFromHeaders: each field is set from its header when the
\* header is present and parses.
updateFromHeaders(r, h) ==
    [remaining |-> IF h.remaining # NULL THEN h.remaining ELSE r.remaining,
     reset |-> IF h.reset # NULL THEN h.reset ELSE r.reset,
     retryAfter |-> IF h.retry # NULL THEN h.retry ELSE r.retryAfter]

\* Variant: every error status is retried.
ShouldRetryAnyError(status) == status >= RetryStatus

\* Middleware: resp.StatusCode == r.retryStatus
ShouldRetry(status) == status = RetryStatus

\* Client.GetRepository / fetchSinglePage / fetchAllPages on the outcome of
\* makeRequest: an error for a transport error and for every status but 200.
ClientError(res) == res = NetErr \/ res # StatusOK

\* h_blocked, h_T: the limiter was exhausted, with reset time h_T, when the
\* call entered; h_declared, h_at: the Retry-After of the 429 the call
\* received (NULL: none) and when it recorded it; first, res: the outcome of
\* the first and of the latest attempt; h_missed: the latest response of the
\* call carried a header value that the limiter did not hold once the
\* middleware had handled that response.
CallIdle == [pc |-> "idle", attempts |-> 0, wake |-> 0, first |-> NULL, res |-> NULL,
             err |-> FALSE, h_blocked |-> FALSE, h_T |-> 0, h_declared |-> NULL,
             h_at |-> 0, h_missed |-> FALSE]

\* The limiter state r does not hold the values of the headers h that are
\* present and parse.
Missed(r, h) ==
    \/ h.remaining # NULL /\ r.remaining # h.remaining
    \/ h.reset # NULL /\ r.reset # h.reset
    \/ h.retry # NULL /\ r.retryAfter # h.retry

\* Variant: the reset time is slept as a duration.
SleepUntilResetAsDuration(r, now) == now + r.reset

\* time.Sleep(time.Until(r.reset)): the moment the sleep ends
SleepUntil(r, now) == r.reset

\* A client operation calls httpClient.Do: Middleware runs r.waitIfNeeded(),
\* which takes mu, reads the state and, when the quota is exhausted, starts
\* time.Sleep(time.Until(r.reset)) with mu held.
WaitIfNeeded(c) ==
    /\ call[c].pc \in {"idle", "done"}
    /\ mu = "free"
    /\ LET blocked == rl.remaining <= 0 /\ rlNow < rl.reset
       IN  IF NeedsWait(rl, rlNow)
           THEN /\ mu' = c
                /\ call' = [call EXCEPT ![c] = [CallIdle EXCEPT !.pc = "qsleep",
                                !.wake = SleepUntil(rl, rlNow), !.h_blocked = blocked,
                                !.h_T = rl.reset]]
           ELSE /\ mu' = "free"
                /\ call' = [call EXCEPT ![c] = [CallIdle EXCEPT !.pc = "send1",
                                !.h_blocked = blocked, !.h_T = rl.reset]]
    /\ UNCHANGED <<rl, rlNow>>

\* time.Sleep returns (not before the reset time); the deferred r.mu.Unlock()
QuotaWaitDone(c) ==
    /\ call[c].pc = "qsleep"
    /\ rlNow >= call[c].wake
    /\ mu' = "free"
    /\ call' = [call EXCEPT ![c].pc = "send1"]
    /\ UNCHANGED <<rl, rlNow>>

\* resp, err := next.RoundTrip(req): the request is sent
Send1(c) ==
    /\ call[c].pc = "send1"
    /\ call' = [call EXCEPT ![c].pc = "resp1", ![c].attempts = 1]
    /\ UNCHANGED <<rl, mu, rlNow>>

\* RoundTrip returned an error: return nil, err
Recv1Error(c) ==
    /\ call[c].pc = "resp1"
    /\ call' = [call EXCEPT ![c].pc = "done", ![c].first = NetErr, ![c].res = NetErr,
                            ![c].err = ClientError(NetErr),
                            ![c].h_blocked = FALSE, ![c].h_T = 0]
    /\ UNCHANGED <<rl, mu, rlNow>>

\* RoundTrip returned a response: on 429 r.updateFromHeaders(resp.Header) and
\* the retry is prepared; otherwise r.updateFromHeaders(resp.Header) and
\* return resp, nil, on which the client operation decides.
Recv1(c) ==
    /\ call[c].pc = "resp1"
    /\ mu = "free"
    /\ \E status \in Statuses, h \in Headers :
        /\ (h.retry # NULL => status = RetryStatus)
        /\ rl' = updateFromHeaders(rl, h)
        /\ IF ShouldRetry(status)
           THEN call' = [call EXCEPT ![c].pc = "retry", ![c].first = status,
                                     ![c].res = status, ![c].h_declared = h.retry,
                                     ![c].h_at = rlNow,
                                     ![c].h_blocked = FALSE, ![c].h_T = 0,
                                     ![c].h_missed = Missed(rl', h)]
           ELSE call' = [call EXCEPT ![c].pc = "done", ![c].first = status,
                                     ![c].res = status, ![c].err = ClientError(status),
                                     ![c].h_blocked = FALSE, ![c].h_T = 0,
                                     ![c].h_missed = Missed(rl', h)]
    /\ UNCHANGED <<mu, rlNow>>

\* time.Sleep(r.retryAfter): the field is read without mu
SleepRetryAfter(c) ==
    /\ call[c].pc = "retry"
    /\ call' = [call EXCEPT ![c].pc = "rsleep", ![c].wake = rlNow + rl.retryAfter]
    /\ UNCHANGED <<rl, mu, rlNow>>

\* the sleep is over: return next.RoundTrip(req), the request is sent again
Send2(c) ==
    /\ call[c].pc = "rsleep"
    /\ rlNow >= call[c].wake
    /\ call' = [call EXCEPT ![c].pc = "resp2", ![c].attempts = 2,
                            ![c].h_declared = NULL, ![c].h_at = 0]
    /\ UNCHANGED <<rl, mu, rlNow>>

\* the outcome of the second RoundTrip is returned as it is (no
\* updateFromHeaders), and the client operation decides on it
Recv2(c) ==
    /\ call[c].pc = "resp2"
    /\ \/ call' = [call EXCEPT ![c].pc = "done", ![c].res = NetErr,
                                ![c].err = ClientError(NetErr), ![c].h_missed = FALSE]
       \/ \E status \in Statuses, h \in Headers :
            /\ (h.retry # NULL => status = RetryStatus)
            /\ call' = [call EXCEPT ![c].pc = "done", ![c].res = status,
                                    ![c].err = ClientError(status),
                                    ![c].h_missed = Missed(rl, h)]
    /\ UNCHANGED <<rl, mu, rlNow>>

\* time passes
RLTick ==
    /\ rlNow < MaxNow
    /\ rlNow' = rlNow + 1
    /\ UNCHANGED <<rl, mu, call>>

\* ----------------------------------------------- client: pages of commits
\* Pages the upstream holds at most, and entries of one page, in the model.
MaxPages == 3
MaxEntries == 2
\* currentParams.Set("per_page", "100")
PerPage == 100

\* opts.Since: a time.Time, as seconds and nanoseconds after the zero time
\* and the zone offset it is displayed in.
SinceOpts ==
    {[sec |-> 0, nsec |-> 0, zone |-> 0], [sec |-> 0, nsec |-> 1, zone |-> 0],
     [sec |-> 1, nsec |-> 0, zone |-> 1]}
\* opts.Page
PageOpts == 0..MaxPages

\* Time.IsZero
IsZero(t) == t.sec = 0 /\ t.nsec = 0
\* Time.UTC
UTC(t) == [t EXCEPT !.zone = 0]
\* Time.Format(time.RFC3339): the text has the seconds and the zone, no fraction
FormatRFC3339(t) == [sec |-> t.sec, zone |-> t.zone]

\* Variant: the instant is formatted in its own zone.
SinceParamLocal(t) == FormatRFC3339(t)

\* ListCommits: sinceUTC := opts.Since.UTC(); sinceUTC.Format(time.RFC3339)
SinceParam(t) == FormatRFC3339(UTC(t))

\* url.Values: make(url.Values), Set/Add of one key
NoParams == [k \in {} |-> 0]
SetParam(q, key, v) == [k \in DOMAIN q \cup {key} |-> IF k = key THEN v ELSE q[k]]

\* The Link header of a response, and strings.Contains(linkHeader, `rel="next"`)
Links == {"", "rel=\"prev\"", "rel=\"next\""}
HasNext(link) == link = "rel=\"next\""

\* Statuses of the commits endpoint in the model.
PageStatuses == {StatusOK, StatusInternalServerError}

\* The n entries of the k-th response of a call, in the order of the body.
Body(k, n) == [i \in 1..n |-> <<k, i>>]

\* Variant: the loop goes on until a page is empty.
MorePagesUntilEmpty(n, link) == n # 0

\* fetchAllPages: the loop goes on after a page of n entries with Link header
\* link unless len(commits) == 0 or the header lacks rel="next"
MorePages(n, link) == n # 0 /\ HasNext(link)

\* h_reqs: the query parameters of the requests the call has made; h_resps:
\* the number of entries and the Link header of the 200 responses it got.
PgIdle == [pc |-> "idle", since |-> [sec |-> 0, nsec |-> 0, zone |-> 0], optPage |-> 0,
           queryParams |-> NoParams, page |-> 0, allCommits |-> <<>>, ret |-> <<>>,
           err |-> FALSE, h_reqs |-> <<>>, h_resps |-> <<>>]

\* ListCommits(ctx, owner, repo, opts): since is added when it is not zero,
\* then fetchSinglePage for opts.Page > 0, else fetchAllPages (page := 1)
ListCommitsCall ==
    /\ pg.pc \in {"idle", "done"}
    /\ \E since \in SinceOpts, p \in PageOpts :
        pg' = [PgIdle EXCEPT
                 !.pc = IF p > 0 THEN "single" ELSE "all",
                 !.since = since, !.optPage = p,
                 !.queryParams = IF ~IsZero(since)
                                 THEN SetParam(NoParams, "since", SinceParam(since))
                                 ELSE NoParams,
                 !.page = IF p > 0 THEN 0 ELSE 1]

\* fetchSinglePage: path += "?" + queryParams.Encode(); makeRequest
FetchSinglePageRequest ==
    /\ pg.pc = "single"
    /\ pg' = [pg EXCEPT !.pc = "singleResp", !.h_reqs = Append(@, pg.queryParams)]

\* fetchSinglePage: an error or a status other than 200 is an error; else the
\* commits of the body are returned
FetchSinglePageResponse ==
    /\ pg.pc = "singleResp"
    /\ \E status \in PageStatuses \cup {NetErr}, n \in 0..MaxEntries, link \in Links :
        IF ClientError(status)
        THEN pg' = [pg EXCEPT !.pc = "done", !.err = TRUE]
        ELSE pg' = [pg EXCEPT !.pc = "done", !.ret = Body(Len(pg.h_reqs), n),
                              !.h_resps = Append(@, [n |-> n, link |-> link])]

\* fetchAllPages, the head of the loop: currentParams is a copy of
\* queryParams with page and per_page set; makeRequest
FetchAllPagesRequest ==
    /\ pg.pc = "all"
    /\ LET currentParams ==
             SetParam(SetParam(pg.queryParams, "page", pg.page), "per_page", PerPage)
       IN  pg' = [pg EXCEPT !.pc = "allResp", !.h_reqs = Append(@, currentParams)]

\* fetchAllPages, the rest of the loop: an error or a status other than 200
\* is an error; an empty page ends the loop; else the page is appended, page
\* is incremented and the loop ends unless the Link header has rel="next".
\* The upstream holds MaxPages pages at most.
FetchAllPagesResponse ==
    /\ pg.pc = "allResp"
    /\ \E status \in PageStatuses \cup {NetErr}, n \in 0..MaxEntries, link \in Links :
        /\ (Len(pg.h_reqs) >= MaxPages => ~HasNext(link))
        /\ (Len(pg.h_reqs) > MaxPages => n = 0)
        /\ IF ClientError(status)
           THEN pg' = [pg EXCEPT !.pc = "done", !.err = TRUE]
           ELSE LET resps == Append(pg.h_resps, [n |-> n, link |-> link])
                    all == IF n = 0 THEN pg.allCommits
                           ELSE pg.allCommits \o Body(Len(pg.h_reqs), n)
                IN  IF MorePages(n, link)
                    THEN pg' = [pg EXCEPT !.pc = "all", !.allCommits = all,
                                          !.page = @ + 1, !.h_resps = resps]
                    ELSE pg' = [pg EXCEPT !.pc = "done", !.allCommits = all,
                                          !.page = IF n = 0 THEN @ ELSE @ + 1,
                                          !.ret = all, !.h_resps = resps]

\* ------------------------------------------------- PostgresDB, call by call
\* Shas and statements of one transaction scope in the model.
MaxDbSha == 1
MaxCalls == 2
\* Shas of the stored commits that GetTopAuthors is applied to in the model.
MaxTopSha == 3
\* limit values of GetTopAuthors in the model
MaxLimit == 2

\* The session that calls PostgresDB, the names, metadata values, shas and
\* author names it passes.
DbSession == "h1"
DbNames == {"o/r", "o/q"}
DbMetas == {1, 2}
DbShas == 1..MaxDbSha
TopShas == 1..MaxTopSha
Authors == {"alice", "bob"}

\* pc: outside a scope ("idle", "ret") or inside fn ("fn"); calls: the
\* statements fn has issued; ret: what WithTransaction returned; out: the
\* repository struct after the latest UpsertRepositoryTx; id: the identity
\* that call returned, which fn passes to the later calls of the scope; top: the result of
\* the latest GetTopAuthors. History: h_store, the store when the scope
\* began, while the scope runs; h_same, the scope left the store as it was
\* when it began; h_done, mutating calls of the scope that returned nil; h_prev, the
\* rows of the upserted name before the upsert; h_dup, the scope inserted a
\* commit whose key was stored with another author; h_fn, how fn ended;
\* h_name, h_limit, the arguments of the latest GetTopAuthors.
DbIdle == [pc |-> "idle", calls |-> 0, ret |-> "none", out |-> NoRepo, id |-> 0,
           top |-> <<>>,
           h_store |-> NoStore, h_same |-> FALSE, h_done |-> 0, h_prev |-> {}, h_dup |-> FALSE,
           h_fn |-> "none", h_name |-> "", h_limit |-> 0,
           got |-> <<>>, h_q |-> [name |-> "", since |-> NULL, until |-> NULL]]

\* UpsertRepositoryTx: row.Scan(&repo.ID, &lastFetched); the watermark is
\* set on the struct when lastFetched.Valid
UpsertResult(repo, row) ==
    [repo EXCEPT !.id = row.id,
                 !.last_commit_fetched_at =
                     IF row.last_commit_fetched_at # NULL
                     THEN row.last_commit_fetched_at ELSE @]

\* p.db.BeginTx(ctx, nil): on an error WithTransaction returns it
DbBeginTx ==
    /\ db.pc \in {"idle", "ret"}
    /\ \E ok \in BOOLEAN :
        IF ok
        THEN /\ tx' = [tx EXCEPT ![DbSession] = [NoTx EXCEPT !.active = TRUE]]
             /\ db' = [DbIdle EXCEPT !.pc = "fn", !.h_store = Store]
        ELSE /\ db' = [DbIdle EXCEPT !.pc = "ret", !.ret = "begin error",
                                     !.h_same = TRUE]
             /\ tx' = tx
    /\ UNCHANGED <<repositories, commits>>

\* fn calls UpsertRepositoryTx(ctx, tx, &repo) with a struct that has no
\* identity and no watermark yet
DbUpsertRepositoryTx ==
    /\ db.pc = "fn" /\ db.calls < MaxCalls
    /\ \E name \in DbNames, meta \in DbMetas :
        LET repo == [NoRepo EXCEPT !.name = name, !.meta = meta]
            row == UpsertRepositoryTx(DbSession, repo)
        IN  /\ tx' = [tx EXCEPT ![DbSession].wrepos =
                         {w \in tx[DbSession].wrepos : w.id # row.id} \cup {row}]
            /\ db' = [db EXCEPT !.calls = @ + 1, !.h_done = @ + 1,
                                !.out = UpsertResult(repo, row),
                                !.id = UpsertResult(repo, row).id,
                                !.h_prev = {r \in TxRepositories(DbSession) : r.name = name}]
    /\ UNCHANGED <<repositories, commits>>

\* fn calls InsertCommitTx(ctx, tx, &commit) with the identity the upsert
\* returned as the commit's RepositoryID
DbInsertCommitTx ==
    /\ db.pc = "fn" /\ db.calls < MaxCalls /\ db.id # 0
    /\ \E sha \in DbShas, a \in Authors :
        LET c == [sha |-> sha, repository_id |-> db.id, author_date |-> AuthorDate(sha),
                  author_name |-> a]
            res == InsertCommitTx(DbSession, c)
            dup == \E x \in BagToSet(commits) :
                       CommitKey(x) = CommitKey(c) /\ x.author_name # a
        IN  /\ tx' = [tx EXCEPT ![DbSession].wcommits = res.wcommits]
            /\ db' = [db EXCEPT !.calls = @ + 1,
                                !.h_done = IF res.err THEN @ ELSE @ + 1,
                                !.h_dup = @ \/ dup, !.out = NoRepo, !.h_prev = {}]
    /\ UNCHANGED <<repositories, commits>>

\* fn calls UpdateRepositoryTx(ctx, tx, &repo) with the struct of the upsert
\* and the watermark set to now
DbUpdateRepositoryTx ==
    /\ db.pc = "fn" /\ db.calls < MaxCalls /\ db.id # 0
    /\ \E r \in {x \in TxRepositories(DbSession) : x.id = db.id} :
        /\ tx' = [tx EXCEPT ![DbSession].wrepos =
                     UpdateRepositoryTx(DbSession, [r EXCEPT !.last_commit_fetched_at = clock])]
        /\ db' = [db EXCEPT !.calls = @ + 1, !.h_done = @ + 1, !.out = NoRepo,
                            !.h_prev = {}]
    /\ UNCHANGED <<repositories, commits>>

\* fn returns nil or an error (that of a failed statement, or its own), or
\* panics: tx.Rollback() or tx.Commit(), each of which may report an error
DbEndTx ==
    /\ db.pc = "fn"
    /\ \E fn \in {"nil", "err", "panic"}, rollbackOk \in BOOLEAN, commitOk \in BOOLEAN :
        LET S == TxOutcome(Store, DbSession, fn = "nil", commitOk)
        IN  /\ repositories' = S.repositories
            /\ commits' = S.commits
            /\ tx' = [tx EXCEPT ![DbSession] = NoTx]
            /\ db' = [db EXCEPT !.pc = "ret", !.ret = TxReturn(fn, rollbackOk, commitOk),
                                !.h_fn = fn, !.out = NoRepo, !.id = 0, !.h_prev = {},
                                !.h_store = NoStore, !.h_same = (S = db.h_store)]

\* The since a caller of ResetRepository gives: a time of its choice, here
\* the time of the call.
ResetSinces == {clock}

\* ResetRepository(ctx, name, since): the DELETE, then the UPDATE, each its
\* own statement; an error of either is returned at once
DbResetRepository ==
    /\ db.pc \in {"idle", "ret"}
    /\ \E name \in DbNames, since \in ResetSinces, ok1 \in BOOLEAN, ok2 \in BOOLEAN :
        LET S1 == IF ok1 THEN ResetDelete(Store, name) ELSE Store
            S2 == IF ok1 /\ ok2 THEN ResetUpdate(S1, name, since) ELSE S1
        IN  /\ repositories' = S2.repositories
            /\ commits' = S2.commits
            /\ db' = DbIdle
    /\ tx' = tx

\* The rows of commits of S joined to the repository of that name.
CommitsOfName(S, name) ==
    LET ids == {r.id : r \in {x \in S.repositories : x.name = name}}
        rows == {c \in BagToSet(S.commits) : c.repository_id \in ids}
    IN  [c \in rows |-> S.commits[c]]

\* SELECT c.author_name, COUNT(*) ... GROUP BY c.author_name
AuthorCounts(S, name) ==
    LET B == CommitsOfName(S, name)
    IN  {[author_name |-> a,
          commit_count |-> BagCardinality([c \in {x \in DOMAIN B : x.author_name = a} |-> B[c]])]
         : a \in {c.author_name : c \in DOMAIN B}}

\* Variant: the groups are ordered by count ascending.
OrderedByCountAsc(s) ==
    \A i, j \in 1..Len(s) : i < j => s[i].commit_count <= s[j].commit_count

\* ORDER BY commit_count DESC
OrderedByCount(s) ==
    \A i, j \in 1..Len(s) : i < j => s[i].commit_count >= s[j].commit_count

\* PostgresDB.GetTopAuthors: the results the query can give; rows of equal
\* count come in any order, LIMIT keeps the first `limit` of them.
GetTopAuthors(S, name, limit) ==
    LET G == AuthorCounts(S, name)
        n == Cardinality(G)
        orders == {s \in [1..n -> G] : (\A i, j \in 1..n : i # j => s[i] # s[j])
                                        /\ OrderedByCount(s)}
    IN  {SubSeq(s, 1, IF limit < n THEN limit ELSE n) : s \in orders}

\* GetTopAuthors(ctx, repoName, limit), outside a transaction
DbGetTopAuthors ==
    /\ db.pc \in {"idle", "ret"}
    /\ \E name \in DbNames, limit \in 0..MaxLimit :
        \E res \in GetTopAuthors(Store, name, limit) :
            db' = [DbIdle EXCEPT !.top = res, !.h_name = name, !.h_limit = limit]
    /\ UNCHANGED <<repositories, commits, tx>>

\* Variant: the bounds are exclusive.
InRangeExclusive(c, since, until) ==
    /\ (since # NULL => c.author_date > since)
    /\ (until # NULL => c.author_date < until)

\* AND c.author_date >= $since (when since != nil) AND c.author_date <= $until
\* (when until != nil)
InRange(c, since, until) ==
    /\ (since # NULL => c.author_date >= since)
    /\ (until # NULL => c.author_date <= until)

\* The bounds a GetCommits call is given: absent, or a date that some commits
\* carry, precede and follow.
QueryBounds == {NULL, 2}

\* PostgresDB.GetCommits: the results the query can give, the selected rows
\* ORDER BY c.author_date DESC; rows of equal date come in any order.
GetCommits(S, name, since, until) ==
    LET B == CommitsOfName(S, name)
        rows == {c \in DOMAIN B : InRange(c, since, until)}
        n == Cardinality(rows)
    IN  {s \in [1..n -> rows] :
            /\ \A i, j \in 1..n : i # j => s[i] # s[j]
            /\ \A i, j \in 1..n : i < j => s[i].author_date >= s[j].author_date}

\* GetCommits(ctx, repoName, since, until), outside a transaction
DbGetCommits ==
    /\ db.pc \in {"idle", "ret"}
    /\ \E name \in DbNames, since \in QueryBounds, until \in QueryBounds :
        \E res \in GetCommits(Store, name, since, until) :
            db' = [DbIdle EXCEPT !.got = res,
                                 !.h_q = [name |-> name, since |-> since, until |-> until]]
    /\ UNCHANGED <<repositories, commits, tx>>

\* ------------------------------------- GetRepository and WriteHTTPError
\* One call of Client.GetRepository, from the response of the platform to
\* the pair it returns, and one call of errors.WriteHTTPError on an error.
StatusCreated == 201
StatusBadRequest == 400
StatusConflict == 409
Levels == {"Fatal", "Error", "Warning", "Info"}

\* An error value: nil, an *ApplicationError ("app"), an error whose Unwrap
\* chain holds an *ApplicationError ("wrapped"), or any other error ("plain").
NoError == [kind |-> "nil", ref |-> "", title |-> "", level |-> ""]
PlainError == [kind |-> "plain", ref |-> "", title |-> "", level |-> ""]
AppError(ref, title, level) ==
    [kind |-> "app", ref |-> ref, title |-> title, level |-> level]

FxRefs == {"GITHUB_API_ERROR", "REPOSITORY_NOT_FOUND", "DB_REPOSITORY_NOT_FOUND"}
FxErrors ==
    {PlainError} \cup
    {[kind |-> k, ref |-> ref, title |-> "t", level |-> l]
        : k \in {"app", "wrapped"}, ref \in FxRefs, l \in Levels}

\* What httpClient.Do gives makeRequest: an error, or a response with a
\* status and a body; reading the body may fail, and the body is a JSON
\* document of a repository or not.
NoBody == [json |-> FALSE, meta |-> NULL]
Bodies == {NoBody} \cup {[json |-> TRUE, meta |-> m] : m \in DbMetas}
FxStatuses == Statuses \cup {StatusCreated, StatusBadRequest}
NoResponse == [transportOk |-> FALSE, status |-> NULL, readOk |-> FALSE, body |-> NoBody]
Responses ==
    {NoResponse} \cup
    {[transportOk |-> TRUE, status |-> st, readOk |-> rd, body |-> b]
        : st \in FxStatuses, rd \in BOOLEAN, b \in Bodies}

\* json.Unmarshal(body, &repository)
Unmarshal(b) == [ok |-> b.json, value |-> IF b.json THEN b.meta ELSE NULL]

\* Variant: the status is compared with 200 before it is compared with 404.
ClientGetRepositoryNo404(r) ==
    IF ~r.transportOk
    THEN [value |-> NULL,
          err |-> AppError("GITHUB_API_ERROR", "Failed to fetch repository from GitHub", "Error")]
    ELSE IF r.status # StatusOK
    THEN [value |-> NULL,
          err |-> AppError("GITHUB_API_ERROR", "Unexpected response from GitHub API", "Error")]
    ELSE IF ~r.readOk
    THEN [value |-> NULL,
          err |-> AppError("GITHUB_API_ERROR", "Failed to read GitHub API response", "Error")]
    ELSE IF ~Unmarshal(r.body).ok
    THEN [value |-> NULL,
          err |-> AppError("GITHUB_API_ERROR", "Failed to parse GitHub API response", "Error")]
    ELSE [value |-> Unmarshal(r.body).value, err |-> NoError]

\* Client.GetRepository, given what makeRequest returned.
ClientGetRepository(r) ==
    IF ~r.transportOk
    THEN [value |-> NULL,
          err |-> AppError("GITHUB_API_ERROR", "Failed to fetch repository from GitHub", "Error")]
    ELSE IF r.status = StatusNotFound
    THEN [value |-> NULL,
          err |-> AppError("REPOSITORY_NOT_FOUND", "Repository not found on GitHub", "Info")]
    ELSE IF r.status # StatusOK
    THEN [value |-> NULL,
          err |-> AppError("GITHUB_API_ERROR", "Unexpected response from GitHub API", "Error")]
    ELSE IF ~r.readOk
    THEN [value |-> NULL,
          err |-> AppError("GITHUB_API_ERROR", "Failed to read GitHub API response", "Error")]
    ELSE IF ~Unmarshal(r.body).ok
    THEN [value |-> NULL,
          err |-> AppError("GITHUB_API_ERROR", "Failed to parse GitHub API response", "Error")]
    ELSE [value |-> Unmarshal(r.body).value, err |-> NoError]

\* errors.WriteHTTPError: the HTTPErrorResponse it writes for err.
NoWritten == [Status |-> NULL, ErrorRef |-> "", Title |-> ""]
WriteHTTPError(err) ==
    IF err.kind \in {"app", "wrapped"}
    THEN [Status |-> CASE err.level = "Fatal" -> StatusInternalServerError
                        [] err.level = "Error" -> StatusBadRequest
                        [] err.level = "Warning" -> StatusConflict
                        [] err.level = "Info" -> StatusOK
                        [] OTHER -> StatusInternalServerError,
          ErrorRef |-> err.ref,
          Title |-> err.title]
    ELSE [Status |-> StatusInternalServerError,
          ErrorRef |-> "",
          Title |-> "An unexpected error occurred"]

\* The header fields of a response as they arrive: strings, "" when absent.
NoRawHeaders == [remaining |-> "", reset |-> "", retry |-> ""]
RawHeaders ==
    [remaining : {"", "abc", "0", "1"},
     reset : {"", "1.5", "1", "2"},
     retry : {"", "Wed, 21 Oct 2015 07:28:00 GMT", "1", "2"}]

\* strconv.Atoi / strconv.ParseInt(s, 10, 64) on a header value
Atoi(s) ==
    CASE s = "0" -> [ok |-> TRUE, val |-> 0]
      [] s = "1" -> [ok |-> TRUE, val |-> 1]
      [] s = "2" -> [ok |-> TRUE, val |-> 2]
      [] OTHER -> [ok |-> FALSE, val |-> 0]

\* Variant: a value that does not parse is taken as 0.
HeaderValueOrZero(s) == IF s # "" THEN Atoi(s).val ELSE NULL

\* headers.Get(...) != "" and err == nil: the value, NULL otherwise
HeaderValue(s) == IF s # "" /\ Atoi(s).ok THEN Atoi(s).val ELSE NULL

\* The three values updateFromHeaders reads from a response's headers.
ParseHeaders(raw) ==
    [remaining |-> HeaderValue(raw.remaining),
     reset |-> HeaderValue(raw.reset),
     retry |-> HeaderValue(raw.retry)]

\* lowWarn of NewRateLimiter
LowWarn == 100
\* if r.remaining < r.lowWarn { logger.Warn(...) }
WarnsLowQuota(r) == r.remaining < LowWarn

FxIdle == [pc |-> "idle", resp |-> NoResponse, value |-> NULL, err |-> NoError,
           written |-> NoWritten, hdr |-> NoRawHeaders, h_rl |-> NewRateLimiter,
           warned |-> FALSE]

\* updateFromHeaders(resp.Header) on any response; h_rl: the limiter before.
HdrUpdateFromHeaders ==
    /\ \E raw \in RawHeaders :
          /\ rl' = updateFromHeaders(rl, ParseHeaders(raw))
          /\ fx' = [FxIdle EXCEPT !.pc = "updated", !.hdr = raw, !.h_rl = rl,
                                  !.warned = WarnsLowQuota(rl')]
    /\ UNCHANGED <<mu, rlNow, call>>

\* makeRequest returns.
FxMakeRequest ==
    /\ fx.pc = "idle"
    /\ \E r \in Responses : fx' = [fx EXCEPT !.pc = "response", !.resp = r]

\* GetRepository returns (value, err).
FxGetRepository ==
    /\ fx.pc = "response"
    /\ fx' = [fx EXCEPT !.pc = "returned",
                        !.value = ClientGetRepository(fx.resp).value,
                        !.err = ClientGetRepository(fx.resp).err]

\* The caller got an error from the client and answers with WriteHTTPError.
FxWriteClientError ==
    /\ fx.pc = "returned"
    /\ fx.err # NoError
    /\ fx' = [fx EXCEPT !.pc = "written", !.written = WriteHTTPError(fx.err)]

\* A handler got an error from the service and answers with WriteHTTPError.
FxWriteError ==
    /\ fx.pc = "idle"
    /\ \E e \in FxErrors :
          fx' = [fx EXCEPT !.pc = "written", !.err = e, !.written = WriteHTTPError(e)]

\* The call is over.
FxDone ==
    /\ fx.pc \in {"returned", "written"}
    /\ fx' = FxIdle

\* ------------------------------------------- main and the API, per request
\* The process of main as the repositories table and the API's clients see
\* it: main's bootstrap, the goroutines running SyncWorker.Run, and the
\* handlers of POST /repositories and POST /repositories/{owner}/{name}/monitor,
\* each SyncRepository call taken as one step that commits or fails.
MonHandlers == {"a1", "a2"}

\* The errors ListAllRepositories and SyncRepository hand to the handlers.
ListErrors == {PlainError, AppError("DB_REPOSITORY_ERROR", "Failed to fetch repository", "Error")}
SyncErrors ==
    {AppError("GITHUB_API_ERROR", "Unexpected response from GitHub API", "Error"),
     AppError("REPOSITORY_NOT_FOUND", "Repository not found on GitHub", "Info"),
     AppError("DB_TRANSACTION_ERROR", "Failed to begin transaction", "Error")}

\* A request: its handler, its repository, the handler's position, the status
\* written, and whether the body written is the success body.
MonIdle == [pc |-> "idle", kind |-> "", name |-> "", status |-> NULL, ok |-> FALSE]

MonInit ==
    [boot |-> "list",
     running |-> [n \in DbNames |-> 0],
     h |-> [x \in MonHandlers |-> MonIdle]]

\* ListAllRepositories: the names of the stored rows.
ListAllRepositories == {r.name : r \in repositories}

\* The table repositories after a SyncRepository of `name` committed: the row
\* of that name, created if it was absent, carries the new watermark.
SyncedRepositories(name) ==
    IF \E r \in repositories : r.name = name
    THEN {IF r.name = name THEN [r EXCEPT !.last_commit_fetched_at = clock] ELSE r
          : r \in repositories}
    ELSE repositories \cup
         {[id |-> NextId, name |-> name, meta |-> 1, last_commit_fetched_at |-> clock]}

\* main: list the repositories; with none listed, sync the default one (exit
\* on failure) and list again (exit on failure); start one worker per listed
\* repository; serve the API.
MonBootstrap ==
    /\ mon.boot = "list"
    /\ \E listOk \in BOOLEAN, syncOk \in BOOLEAN, reloadOk \in BOOLEAN :
          LET listed == IF listOk THEN ListAllRepositories ELSE {}
          IN  IF listed # {}
              THEN /\ mon' = [mon EXCEPT !.boot = "serving",
                                         !.running = [n \in DbNames |->
                                                         IF n \in listed THEN 1 ELSE 0]]
                   /\ UNCHANGED repositories
              ELSE IF ~syncOk
              THEN /\ mon' = [mon EXCEPT !.boot = "exited"]
                   /\ UNCHANGED repositories
              ELSE /\ repositories' = SyncedRepositories(DefaultRepository)
                   /\ IF reloadOk
                      THEN mon' = [mon EXCEPT !.boot = "serving",
                                              !.running = [n \in DbNames |->
                                                              IF n \in {r.name : r \in repositories'}
                                                              THEN 1 ELSE 0]]
                      ELSE mon' = [mon EXCEPT !.boot = "exited"]

\* The process is started again: no goroutine of the old process survives.
MonRestart ==
    /\ mon.boot \in {"serving", "exited"}
    /\ mon' = MonInit
    /\ UNCHANGED repositories

\* AddRepository up to the check of the listed names: 409 when the name is
\* listed, the error's status when the listing failed.
AddRepositoryCheck(x) ==
    /\ mon.boot = "serving"
    /\ mon.h[x].pc = "idle"
    /\ \E name \in DbNames, listOk \in BOOLEAN, e \in ListErrors :
          mon' = [mon EXCEPT !.h[x] =
                     IF ~listOk
                     THEN [pc |-> "done", kind |-> "add", name |-> name,
                           status |-> WriteHTTPError(e).Status, ok |-> FALSE]
                     ELSE IF name \in ListAllRepositories
                     THEN [pc |-> "done", kind |-> "add", name |-> name,
                           status |-> StatusConflict, ok |-> FALSE]
                     ELSE [pc |-> "sync", kind |-> "add", name |-> name,
                           status |-> NULL, ok |-> FALSE]]
    /\ UNCHANGED repositories

\* AddRepository: SyncRepository(ctx, owner, name, time.Time{}).
AddRepositorySync(x) ==
    /\ mon.boot = "serving"
    /\ mon.h[x].pc = "sync"
    /\ \E ok \in BOOLEAN, e \in SyncErrors :
          IF ok
          THEN /\ repositories' = SyncedRepositories(mon.h[x].name)
               /\ mon' = [mon EXCEPT !.h[x].pc = "go"]
          ELSE /\ mon' = [mon EXCEPT !.h[x].pc = "done",
                                     !.h[x].status = WriteHTTPError(e).Status]
               /\ UNCHANGED repositories

\* AddRepository: go func() { ... w.Run(h.ctx) }(), then 201.
AddRepositoryGo(x) ==
    /\ mon.boot = "serving"
    /\ mon.h[x].pc = "go"
    /\ mon' = [mon EXCEPT !.running[mon.h[x].name] = @ + 1,
                          !.h[x].pc = "done",
                          !.h[x].status = StatusCreated,
                          !.h[x].ok = TRUE]
    /\ UNCHANGED repositories

\* monitorRepository: SyncRepository(r.Context(), owner, repoName, since),
\* then 200 "Repository monitoring started successfully".
MonMonitorRepository(x) ==
    /\ mon.boot = "serving"
    /\ mon.h[x].pc = "idle"
    /\ \E name \in DbNames, ok \in BOOLEAN, e \in SyncErrors :
          IF ok
          THEN /\ repositories' = SyncedRepositories(name)
               /\ mon' = [mon EXCEPT !.h[x] = [pc |-> "done", kind |-> "monitor",
                                               name |-> name, status |-> StatusOK,
                                               ok |-> TRUE]]
          ELSE /\ mon' = [mon EXCEPT !.h[x] = [pc |-> "done", kind |-> "monitor",
                                               name |-> name,
                                               status |-> WriteHTTPError(e).Status,
                                               ok |-> FALSE]]
               /\ UNCHANGED repositories

\* The response is written; the connection serves its next request.
MonRequestDone(x) ==
    /\ mon.boot = "serving"
    /\ mon.h[x].pc = "done"
    /\ mon' = [mon EXCEPT !.h[x] = MonIdle]
    /\ UNCHANGED repositories

\* --------------------------------------------------------------------- Spec
\* --------------------------------- AddRepository with its SyncRepository
\* The names add requests carry (req.Owner + "/" + req.Name): the spelling
\* the upstream reports, and one that differs from it in case.
AddNames == {"o/r", "O/R"}

\* The handler of the add requests, as a caller of SyncRepository.
AddHandler == "h1"

\* pc: no request ("idle"), SyncRepository running ("sync"), 201 written and
\* the worker started ("created"); name: repoName. History: h_up, the
\* upstream commits when the request's SyncRepository listed them.
AddIdle == [pc |-> "idle", name |-> "", h_up |-> {}]

\* The row the bootstrap of main left in the store before the API served:
\* the default repository, here one no add request names, synced at time 1
\* with no commit upstream. (Its worker touches that row only.)
BootRepositories ==
    {[id |-> 1, name |-> "o/q", meta |-> 1, last_commit_fetched_at |-> 1]}

Init ==
    /\ clock = 1
    /\ upstream = {}
    /\ repositories = {}
    /\ commits = EmptyBag
    /\ tx = [p \in Procs |-> NoTx]
    /\ sync = [p \in Procs |-> NoSync]
    /\ wst = [w \in WorkerIds |-> WorkerOff]
    /\ hst = [h \in HandlerIds |-> HandlerIdle]
    /\ mpc = "list"
    /\ cancelled = FALSE
    /\ h_pre = [p \in Procs |-> NoStore]
    /\ h_fault = [p \in Procs |-> FALSE]
    /\ h_syncWm = NULL
    /\ h_settled = FALSE
    /\ rl = NewRateLimiter
    /\ mu = "free"
    /\ rlNow = 0
    /\ call = [c \in Callers |-> CallIdle]
    /\ pg = PgIdle
    /\ db = DbIdle
    /\ mon = MonInit
    /\ fx = FxIdle
    /\ add = AddIdle

SyncStep(p) ==
    \/ SyncBeginTx(p)
    \/ SyncGetRepository(p)
    \/ SyncUpsert(p)
    \/ SyncListCommits(p)
    \/ SyncInsertCommit(p)
    \/ SyncUpdateRepository(p)
    \/ SyncCommit(p)

WorkerStep(w) ==
    \/ WorkerInitialSync(w)
    \/ WorkerInitialDone(w)
    \/ WorkerTick(w)
    \/ WorkerReadAndSync(w)
    \/ WorkerSyncDone(w)

MainStep ==
    \/ MainListRepositories
    \/ MainSyncDone
    \/ MainStartWorkers

HandlerStep(h) ==
    \/ MonitorRepository(h)
    \/ MonitorDone(h)
    \/ ResetDeleteCommits(h)
    \/ ResetUpdateWatermark(h)
    \/ ResetDone(h)

Next ==
    \/ (\E p \in Procs : SyncStep(p)) /\ UNCHANGED <<rlVars, pgVars, dbVars, apiVars>>
    \/ (\E w \in WorkerIds : WorkerStep(w)) /\ UNCHANGED <<rlVars, pgVars, dbVars, apiVars>>
    \/ MainStep /\ UNCHANGED <<rlVars, pgVars, dbVars, apiVars>>
    \/ (\E h \in HandlerIds : HandlerStep(h)) /\ UNCHANGED <<rlVars, pgVars, dbVars, apiVars>>
    \/ Tick /\ UNCHANGED <<rlVars, pgVars, dbVars, apiVars>>
    \/ UpstreamPush /\ UNCHANGED <<rlVars, pgVars, dbVars, apiVars>>

Spec == Init /\ [][Next]_vars

\* Spec without the API handlers: the bootstrap of main, then the workers
\* polling on their tickers while commits are pushed upstream and time passes.
NextPoll ==
    \/ (\E p \in Procs : SyncStep(p)) /\ UNCHANGED <<rlVars, pgVars, dbVars, apiVars>>
    \/ (\E w \in WorkerIds : WorkerStep(w)) /\ UNCHANGED <<rlVars, pgVars, dbVars, apiVars>>
    \/ MainStep /\ UNCHANGED <<rlVars, pgVars, dbVars, apiVars>>
    \/ Tick /\ UNCHANGED <<rlVars, pgVars, dbVars, apiVars>>
    \/ UpstreamPush /\ UNCHANGED <<rlVars, pgVars, dbVars, apiVars>>

SpecPoll == Init /\ [][NextPoll]_vars

\* AddRepository up to its call of SyncRepository: ListAllRepositories (an
\* error is written as the response), 409 when a stored name equals
\* repoName, otherwise SyncRepository(ctx, req.Owner, req.Name, time.Time{}).
\* (Requests are taken while a worker can still be started.)
AddRepositoryCall ==
    /\ mpc = "serving"
    /\ add.pc = "idle"
    /\ \E w \in WorkerIds : wst[w].pc = "off"
    /\ \E n \in AddNames, ok \in Ok(AddHandler) :
        IF ok /\ n \notin GetAllRepositories
        THEN /\ add' = [AddIdle EXCEPT !.pc = "sync", !.name = n]
             /\ StartSync(AddHandler, n, ZeroTime)
        ELSE /\ add' = AddIdle
             /\ UNCHANGED <<sync, h_pre, h_fault>>
    /\ UNCHANGED <<clock, upstream, repositories, commits, tx, wst, hst, mpc, cancelled,
                   h_syncWm, h_settled>>

\* A step of the request's SyncRepository; history: the upstream commits
\* at its ListCommits.
AddRepositorySyncStep ==
    /\ add.pc = "sync"
    /\ SyncStep(AddHandler)
    /\ add' = [add EXCEPT !.h_up = IF sync[AddHandler].pc = "list"
                                       /\ sync'[AddHandler].pc = "insert"
                                    THEN upstream ELSE @]

\* SyncRepository returned: on an error WriteHTTPError and return; otherwise
\* go func() { w := worker.NewSyncWorker(h.service, syncInterval, req.Owner,
\* req.Name); w.Run(h.ctx) }() and 201
AddRepositoryStartWorker ==
    /\ add.pc = "sync"
    /\ sync[AddHandler].pc = "ret"
    /\ IF sync[AddHandler].err = "ok"
       THEN /\ \E w \in {x \in WorkerIds : wst[x].pc = "off"} :
                 wst' = [wst EXCEPT ![w] = [pc |-> "start", name |-> add.name]]
            /\ add' = [add EXCEPT !.pc = "created"]
       ELSE /\ add' = AddIdle
            /\ wst' = wst
    /\ EndSync(AddHandler)
    /\ UNCHANGED <<clock, upstream, repositories, commits, tx, hst, mpc, cancelled,
                   h_syncWm, h_settled>>

\* The API serving add requests after the bootstrap, with the worker an add
\* request starts.
InitAddSync ==
    /\ clock = 1
    /\ upstream = {}
    /\ repositories = BootRepositories
    /\ commits = EmptyBag
    /\ tx = [p \in Procs |-> NoTx]
    /\ sync = [p \in Procs |-> NoSync]
    /\ wst = [w \in WorkerIds |-> WorkerOff]
    /\ hst = [h \in HandlerIds |-> HandlerIdle]
    /\ mpc = "serving"
    /\ cancelled = FALSE
    /\ h_pre = [p \in Procs |-> NoStore]
    /\ h_fault = [p \in Procs |-> FALSE]
    /\ h_syncWm = NULL
    /\ h_settled = FALSE
    /\ rl = NewRateLimiter
    /\ mu = "free"
    /\ rlNow = 0
    /\ call = [c \in Callers |-> CallIdle]
    /\ pg = PgIdle
    /\ db = DbIdle
    /\ mon = MonInit
    /\ fx = FxIdle
    /\ add = AddIdle

NextAddSync ==
    \/ AddRepositoryCall /\ UNCHANGED <<rlVars, pgVars, dbVars, mon, fx>>
    \/ AddRepositorySyncStep /\ UNCHANGED <<rlVars, pgVars, dbVars, mon, fx>>
    \/ AddRepositoryStartWorker /\ UNCHANGED <<rlVars, pgVars, dbVars, mon, fx>>
    \/ (\E w \in WorkerIds : SyncStep(w)) /\ UNCHANGED <<rlVars, pgVars, dbVars, apiVars>>
    \/ (\E w \in WorkerIds : WorkerStep(w)) /\ UNCHANGED <<rlVars, pgVars, dbVars, apiVars>>
    \/ Tick /\ UNCHANGED <<rlVars, pgVars, dbVars, apiVars>>
    \/ UpstreamPush /\ UNCHANGED <<rlVars, pgVars, dbVars, apiVars>>

SpecAddSync == InitAddSync /\ [][NextAddSync]_vars

\* Spec with the shutdown: main returns on a signal, cancelling ctx; the
\* goroutines may still take steps until the process is gone.
NextStop ==
    \/ Next
    \/ MainShutdown /\ UNCHANGED <<rlVars, pgVars, dbVars, apiVars>>
    \/ (\E w \in WorkerIds : WorkerStop(w)) /\ UNCHANGED <<rlVars, pgVars, dbVars, apiVars>>

SpecStop == Init /\ [][NextStop]_vars

\* SpecStop with the scheduling of the Go runtime: a goroutine that can take
\* a step takes one, and a select with several ready cases picks each of them
\* with equal chance, so a worker that finds ctx.Done() ready at every select
\* does not pick ticker.C forever.
FairStop ==
    /\ \A p \in Procs : WF_vars(SyncStep(p) /\ UNCHANGED <<rlVars, pgVars, dbVars, apiVars>>)
    /\ \A w \in WorkerIds :
        /\ WF_vars(WorkerStep(w) /\ UNCHANGED <<rlVars, pgVars, dbVars, apiVars>>)
        /\ SF_vars(WorkerStop(w) /\ UNCHANGED <<rlVars, pgVars, dbVars, apiVars>>)
    /\ \A h \in HandlerIds : WF_vars(HandlerStep(h) /\ UNCHANGED <<rlVars, pgVars, dbVars, apiVars>>)
    /\ WF_vars(MainStep /\ UNCHANGED <<rlVars, pgVars, dbVars, apiVars>>)

\* The steps of SpecStop while time.Now() stands still.
NextStopFair ==
    \/ (\E p \in Procs : SyncStep(p)) /\ UNCHANGED <<rlVars, pgVars, dbVars, apiVars>>
    \/ (\E w \in WorkerIds : WorkerStep(w)) /\ UNCHANGED <<rlVars, pgVars, dbVars, apiVars>>
    \/ MainStep /\ UNCHANGED <<rlVars, pgVars, dbVars, apiVars>>
    \/ (\E h \in HandlerIds : HandlerStep(h)) /\ UNCHANGED <<rlVars, pgVars, dbVars, apiVars>>
    \/ UpstreamPush /\ UNCHANGED <<rlVars, pgVars, dbVars, apiVars>>
    \/ MainShutdown /\ UNCHANGED <<rlVars, pgVars, dbVars, apiVars>>
    \/ (\E w \in WorkerIds : WorkerStop(w)) /\ UNCHANGED <<rlVars, pgVars, dbVars, apiVars>>

SpecStopFair == Init /\ [][NextStopFair]_vars /\ FairStop

CallStep(c) ==
    \/ WaitIfNeeded(c)
    \/ QuotaWaitDone(c)
    \/ Send1(c)
    \/ Recv1Error(c)
    \/ Recv1(c)
    \/ SleepRetryAfter(c)
    \/ Send2(c)
    \/ Recv2(c)

NextRL ==
    \/ (\E c \in Callers : CallStep(c)) /\ UNCHANGED <<syncVars, pgVars, dbVars, apiVars>>
    \/ RLTick /\ UNCHANGED <<syncVars, pgVars, dbVars, apiVars>>

SpecRL == Init /\ [][NextRL]_vars

\* Time advances, and a goroutine that can take a step of its call takes one.
FairRL ==
    /\ WF_vars(RLTick /\ UNCHANGED <<syncVars, pgVars, dbVars, apiVars>>)
    /\ \A c \in Callers :
          WF_vars(CallStep(c) /\ UNCHANGED <<syncVars, pgVars, dbVars, apiVars>>)

SpecRLFair == Init /\ [][NextRL]_vars /\ FairRL

NextPG ==
    \/ ListCommitsCall /\ UNCHANGED <<syncVars, rlVars, dbVars, apiVars>>
    \/ FetchSinglePageRequest /\ UNCHANGED <<syncVars, rlVars, dbVars, apiVars>>
    \/ FetchSinglePageResponse /\ UNCHANGED <<syncVars, rlVars, dbVars, apiVars>>
    \/ FetchAllPagesRequest /\ UNCHANGED <<syncVars, rlVars, dbVars, apiVars>>
    \/ FetchAllPagesResponse /\ UNCHANGED <<syncVars, rlVars, dbVars, apiVars>>

SpecPG == Init /\ [][NextPG]_vars

\* The variables of Spec that the calls of DbSession leave alone.
dbOther == <<clock, upstream, sync, wst, hst, mpc, cancelled, h_pre, h_fault,
             h_syncWm, h_settled>>

NextDB ==
    \/ DbBeginTx /\ UNCHANGED <<dbOther, rlVars, pgVars, apiVars>>
    \/ DbUpsertRepositoryTx /\ UNCHANGED <<dbOther, rlVars, pgVars, apiVars>>
    \/ DbInsertCommitTx /\ UNCHANGED <<dbOther, rlVars, pgVars, apiVars>>
    \/ DbUpdateRepositoryTx /\ UNCHANGED <<dbOther, rlVars, pgVars, apiVars>>
    \/ DbEndTx /\ UNCHANGED <<dbOther, rlVars, pgVars, apiVars>>
    \/ DbResetRepository /\ UNCHANGED <<dbOther, rlVars, pgVars, apiVars>>

SpecDB == Init /\ [][NextDB]_vars

\* GetTopAuthors applied to every table of commits of two stored
\* repositories, with at most one row per (sha, repository).
TopRepositories ==
    {[id |-> 1, name |-> "o/r", meta |-> 1, last_commit_fetched_at |-> NULL],
     [id |-> 2, name |-> "o/q", meta |-> 1, last_commit_fetched_at |-> NULL]}

InitTop ==
    /\ clock = 1
    /\ upstream = {}
    /\ repositories = TopRepositories
    /\ \E f \in [TopShas \X {1, 2} -> Authors \cup {""}] :
          commits = SetToBag({[sha |-> k[1], repository_id |-> k[2],
                               author_date |-> AuthorDate(k[1]), author_name |-> f[k]]
                              : k \in {x \in TopShas \X {1, 2} : f[x] # ""}})
    /\ tx = [p \in Procs |-> NoTx]
    /\ sync = [p \in Procs |-> NoSync]
    /\ wst = [w \in WorkerIds |-> WorkerOff]
    /\ hst = [h \in HandlerIds |-> HandlerIdle]
    /\ mpc = "list"
    /\ cancelled = FALSE
    /\ h_pre = [p \in Procs |-> NoStore]
    /\ h_fault = [p \in Procs |-> FALSE]
    /\ h_syncWm = NULL
    /\ h_settled = FALSE
    /\ rl = NewRateLimiter
    /\ mu = "free"
    /\ rlNow = 0
    /\ call = [c \in Callers |-> CallIdle]
    /\ pg = PgIdle
    /\ db = DbIdle
    /\ mon = MonInit
    /\ fx = FxIdle
    /\ add = AddIdle

NextTop ==
    \/ DbGetTopAuthors /\ UNCHANGED <<dbOther, rlVars, pgVars, apiVars>>
    \/ DbGetCommits /\ UNCHANGED <<dbOther, rlVars, pgVars, apiVars>>

SpecTop == InitTop /\ [][NextTop]_vars


\* The variables that main's bootstrap and the add and monitor requests leave
\* alone.
monOther == <<dbOther, commits, tx, rlVars, pgVars, dbVars, fx, add>>

NextAdd ==
    \/ MonBootstrap /\ UNCHANGED monOther
    \/ MonRestart /\ UNCHANGED monOther
    \/ (\E x \in MonHandlers : AddRepositoryCheck(x)) /\ UNCHANGED monOther
    \/ (\E x \in MonHandlers : AddRepositorySync(x)) /\ UNCHANGED monOther
    \/ (\E x \in MonHandlers : AddRepositoryGo(x)) /\ UNCHANGED monOther
    \/ (\E x \in MonHandlers : MonMonitorRepository(x)) /\ UNCHANGED monOther
    \/ (\E x \in MonHandlers : MonRequestDone(x)) /\ UNCHANGED monOther

SpecAdd == Init /\ [][NextAdd]_vars


NextFx ==
    \/ FxMakeRequest /\ UNCHANGED <<syncVars, rlVars, pgVars, dbVars, mon, add>>
    \/ FxGetRepository /\ UNCHANGED <<syncVars, rlVars, pgVars, dbVars, mon, add>>
    \/ FxWriteClientError /\ UNCHANGED <<syncVars, rlVars, pgVars, dbVars, mon, add>>
    \/ FxWriteError /\ UNCHANGED <<syncVars, rlVars, pgVars, dbVars, mon, add>>
    \/ FxDone /\ UNCHANGED <<syncVars, rlVars, pgVars, dbVars, mon, add>>

SpecFx == Init /\ [][NextFx]_vars

NextHdr == HdrUpdateFromHeaders /\ UNCHANGED <<syncVars, pgVars, dbVars, mon, add>>

SpecHdr == Init /\ [][NextHdr]_vars

\* -------------------------------------------------------------- properties
\* A SyncRepository execution of p is in flight.
InFlight(p) == sync[p].pc \notin {"none", "ret"}

\* The step is p's tx.Commit() returning nil.
CommitsOk(p) == sync[p].pc = "commit" /\ sync'[p].pc = "ret" /\ sync'[p].err = "ok"

\* The steps of SyncRepository that write to the store.
PersistStages == {"upsert", "insert", "update", "commit"}

StoredKeys == {CommitKey(c) : c \in BagToSet(commits)}

\* C1: when SyncRepository has returned the error of a persistence step (the
\* upsert, the insert of any fetched commit, the watermark update, the
\* commit), the commit rows and the repository rows, watermark included, are
\* what they would be had the call written nothing.
C1_AtomicRollback ==
    \A p \in Procs :
        sync[p].pc = "ret" /\ sync[p].err \in PersistStages => Store = h_pre[p]

\* A sync failed at an insert after it had written the repository row and at
\* least one commit, and none of it is stored.
C1_Witness ==
    \E p \in Procs :
        /\ sync[p].pc = "ret" /\ sync[p].err = "insert" /\ sync[p].h_wrote >= 2
        /\ Store = h_pre[p]

\* At most one commit row per (sha, repository identity).
UniqueCommits ==
    /\ \A c \in BagToSet(commits) : CopiesIn(c, commits) = 1
    /\ \A c, d \in BagToSet(commits) : CommitKey(c) = CommitKey(d) => c = d

\* A sync that returned an error met an injected failure, never a duplicate.
NoDuplicateFailure ==
    \A p \in Procs : sync[p].pc = "ret" /\ sync[p].err # "ok" => h_fault[p]

\* An insert statement whose key already has a row adds nothing.
InsertSkipsDuplicate(p) ==
    (/\ sync[p].pc = "insert" /\ sync[p].todo # <<>>
     /\ [sha |-> Head(sync[p].todo), repository_id |-> sync[p].dbRepo.id] \in TxCommitKeys(p)
     /\ tx'[p].active)
    => tx'[p].wcommits = tx[p].wcommits

\* A committing sync keeps every stored row and adds only rows it inserted
\* for keys that had none.
CommitAddsOnlyMissing(p) ==
    CommitsOk(p) =>
        /\ \A c \in BagToSet(commits) : CopiesIn(c, commits') = 1
        /\ \A c \in BagToSet(commits') \ BagToSet(commits) :
              c \in tx[p].wcommits /\ CommitKey(c) \notin StoredKeys
        /\ (tx[p].wcommits = {} => commits' = commits)

\* C2 (as amended): in every reachable state the store holds at most one
\* commit row per (sha, repository identity); a duplicate key is skipped
\* silently and never makes the sync fail; a sync only adds rows for fetched
\* commits that have no row yet, so that a sync all of whose fetched commits
\* are stored leaves the commit rows unchanged.
C2_IdempotentIngestion ==
    /\ [](UniqueCommits /\ NoDuplicateFailure)
    /\ [][\A p \in Procs : InsertSkipsDuplicate(p) /\ CommitAddsOnlyMissing(p)]_vars

\* A worker's initial (full) sync succeeded having inserted no commit, every
\* upstream commit being stored already.
C2_Witness ==
    \E w \in WorkerIds :
        /\ wst[w].pc = "initial" /\ sync[w].pc = "ret" /\ sync[w].err = "ok"
        /\ sync[w].h_wrote = 1
        /\ upstream # {} /\ \A s \in upstream : \E k \in StoredKeys : k.sha = s

\* C2 as stated: once a sync has succeeded against the complete upstream
\* (which no longer changes), a further successful sync against it, whatever
\* its since value, leaves the stored commit rows unchanged.
C2_AnySinceUnchanged ==
    [][\A p \in Procs : CommitsOk(p) /\ h_settled /\ sync[p].h_full => commits' = commits]_vars

\* C3: the watermark a successful SyncRepository stores is not later than the
\* time its update was issued and not earlier than the watermark stored by
\* any earlier successful SyncRepository of the repository, whoever the
\* callers are.
C3_WatermarkMonotone ==
    [][\A p \in Procs :
        /\ (sync[p].pc = "insert" /\ sync'[p].pc = "commit"
              => sync'[p].dbRepo.last_commit_fetched_at <= clock)
        /\ (CommitsOk(p) =>
              \E r \in repositories' :
                 /\ r.name = FullName(sync[p].name)
                 /\ r.last_commit_fetched_at = sync[p].dbRepo.last_commit_fetched_at
                 /\ r.last_commit_fetched_at >= h_syncWm
                 /\ h_syncWm' = r.last_commit_fetched_at)]_vars

\* A tick's sync of the worker has committed a later watermark than the first
\* instant while a request's sync of the same repository waits for the row.
C3_Witness ==
    \E w \in WorkerIds, h \in HandlerIds :
        /\ wst[w].pc = "syncing" /\ sync[w].pc = "ret" /\ sync[w].err = "ok"
        /\ h_syncWm = MaxTime
        /\ sync[h].pc = "upsert" /\ sync[h].name = sync[w].name

\* C4: at no time are two SyncRepository executions of the same repository
\* in flight.
C4_SequentialSyncs ==
    \A p, q \in Procs :
        p # q /\ InFlight(p) /\ InFlight(q) => FullName(sync[p].name) # FullName(sync[q].name)

\* C5: every tick of a worker leads to a call of SyncRepository.
C5_EveryTickSyncs ==
    [][\A w \in WorkerIds :
        wst[w].pc = "ticked" /\ wst'[w].pc # "ticked" => wst'[w].pc = "syncing"]_vars

\* The step is h's ResetRepository returning.
ResetReturns(h) == hst[h].pc \in {"idle", "reset"} /\ hst'[h].pc = "resetRet"

\* The commit rows of store S that belong to the repository of that name.
CommitsOf(S, name) ==
    {c \in BagToSet(S.commits) :
        \E r \in S.repositories : r.name = name /\ r.id = c.repository_id}

\* C6: when ResetRepository returns, either (success) the repository has no
\* commit row and its watermark is since, or (error) the commit rows and the
\* watermark are as they would be had it written nothing.
C6_ResetAtomic ==
    [][\A h \in HandlerIds :
        ResetReturns(h) =>
            IF hst'[h].err THEN Store' = h_pre'[h]
            ELSE /\ CommitsOf(Store', hst'[h].name) = {}
                 /\ \A r \in repositories' :
                       r.name = hst'[h].name => r.last_commit_fetched_at = hst'[h].since]_vars

\* C7: when ResetRepository(repo, since) succeeds, the repository row exists
\* with watermark since and no commit authored before since is stored for it,
\* also with a sync of the repository in flight during the reset.
C7_ResetThenResync ==
    [][\A h \in HandlerIds :
        ResetReturns(h) /\ ~hst'[h].err =>
            /\ \E r \in repositories' :
                  r.name = hst'[h].name /\ r.last_commit_fetched_at = hst'[h].since
            /\ \A c \in CommitsOf(Store', hst'[h].name) :
                  hst'[h].since = ZeroTime \/ c.author_date >= hst'[h].since]_vars

\* The step is the first transport attempt of c's call being sent.
Sends1(c) == call[c].pc = "send1" /\ call'[c].pc = "resp1"

\* The step is the retry of c's call being sent.
Sends2(c) == call[c].pc = "rsleep" /\ call'[c].pc = "resp2"

\* The step is c's call entering the middleware.
Enters(c) == call[c].pc \in {"idle", "done"} /\ call'[c].pc \notin {"idle", "done"}

\* C8: a call that enters the middleware with remaining <= 0 and the reset
\* time T in the future is not sent before T; a call that enters with
\* remaining > 0 or T not in the future (a fresh limiter included) is sent
\* without waiting, and only a call of the first kind waits.
C8_QuotaBlocking ==
    /\ [](\A c \in Callers : call[c].pc = "qsleep" => call[c].h_blocked)
    /\ [][\A c \in Callers :
            /\ (Sends1(c) /\ call[c].h_blocked => rlNow >= call[c].h_T)
            /\ (Enters(c) /\ ~call'[c].h_blocked => call'[c].pc = "send1")]_vars

\* A call that found the quota exhausted has been sent, at or after the
\* reset time.
C8_Witness ==
    \E c \in Callers :
        call[c].pc = "resp1" /\ call[c].h_blocked /\ call[c].h_T > 0 /\ rlNow >= call[c].h_T

\* C9: a first 429 leads to one retry, sent only after the Retry-After delay
\* that response declared has elapsed; a call makes at most two attempts, and
\* a 429 on the retry makes the client operation return an error.
C9_RetryBound ==
    /\ [](\A c \in Callers :
            /\ call[c].attempts <= 2
            /\ (call[c].pc = "done" /\ call[c].attempts = 2 /\ call[c].res = RetryStatus
                  => call[c].err))
    /\ [][\A c \in Callers :
            /\ (call[c].pc = "resp1" /\ call'[c].first = RetryStatus => call'[c].pc = "retry")
            /\ (Sends2(c) /\ call[c].h_declared # NULL
                  => rlNow >= call[c].h_at + call[c].h_declared)]_vars

\* C10: a call whose first attempt ended in a transport error or in a status
\* other than 429 makes no second attempt and no retry sleep; its outcome is
\* that of the first attempt, and the client operation fails on it unless it
\* is 200.
C10_NoRetryOtherFailures ==
    \A c \in Callers :
        /\ (call[c].pc \in {"retry", "rsleep", "resp2"} => call[c].first = RetryStatus)
        /\ (call[c].pc = "done" /\ call[c].first # RetryStatus =>
              /\ call[c].attempts = 1
              /\ call[c].res = call[c].first
              /\ (call[c].first # StatusOK => call[c].err))

\* A call was answered 500 on its first attempt and the client operation
\* failed after that one request.
C10_Witness ==
    \E c \in Callers :
        /\ call[c].pc = "done" /\ call[c].first = StatusInternalServerError
        /\ call[c].attempts = 1 /\ call[c].err

\* The step is c's call reading r.retryAfter for the retry sleep.
ReadsRetryAfter(c) == call[c].pc = "retry" /\ call'[c].pc = "rsleep"

\* The step is d's call writing the limiter state from a response.
WritesLimiter(d) == call[d].pc = "resp1" /\ call'[d].pc \in {"retry", "done"} /\ call'[d].first # NetErr

\* C11: every read and every write of remaining, reset and retryAfter is made
\* by a caller that holds the mutex: a caller that reads retryAfter holds mu,
\* and no caller writes the state while another caller stands between its
\* own write and its read of retryAfter.
C11_LockDiscipline ==
    [][\A c \in Callers :
        /\ (ReadsRetryAfter(c) => mu = c)
        /\ \A d \in Callers \ {c} :
              WritesLimiter(d) => call[c].pc # "retry"]_vars

\* C12: once the middleware has handled a response, that of the retry after
\* a 429 included, the limiter's remaining, reset and retryAfter are the
\* values of the headers of that response that are present and parse.
C12_StateFollowsResponse ==
    [][\A c \in Callers :
        call[c].pc \in {"resp1", "resp2"} /\ call'[c].pc \in {"retry", "done"}
            => ~call'[c].h_missed]_vars

\* The response r ends the pagination: no entries, or no rel="next" marker.
LastPage(r) == r.n = 0 \/ r.link # "rel=\"next\""

RECURSIVE Concatenation(_, _)
\* The entries of the first k responses, whose sizes are in resps, in order.
Concatenation(resps, k) ==
    IF k = 0 THEN <<>> ELSE Concatenation(resps, k - 1) \o Body(k, resps[k].n)

\* C13: a ListCommits call without a page number requests pages 1, 2, 3, ...
\* with page size 100, never requests a page after one that was empty or had
\* no rel="next" marker, and when it returns after k requests page k is such
\* a page and the result is the entries of pages 1..k in request order.
C13_FetchAllPagination ==
    pg.optPage = 0 =>
        /\ \A i \in 1..Len(pg.h_reqs) :
              /\ {"page", "per_page"} \subseteq DOMAIN pg.h_reqs[i]
              /\ pg.h_reqs[i]["page"] = i /\ pg.h_reqs[i]["per_page"] = PerPage
        /\ \A i \in 1..Len(pg.h_resps) : i < Len(pg.h_reqs) => ~LastPage(pg.h_resps[i])
        /\ (pg.pc = "done" /\ ~pg.err =>
              /\ Len(pg.h_resps) = Len(pg.h_reqs)
              /\ Len(pg.h_reqs) >= 1
              /\ LastPage(pg.h_resps[Len(pg.h_reqs)])
              /\ pg.ret = Concatenation(pg.h_resps, Len(pg.h_reqs)))

\* A fetch of all pages returned three entries after exactly two requests.
C13_Witness ==
    /\ pg.optPage = 0 /\ pg.pc = "done" /\ ~pg.err
    /\ Len(pg.h_reqs) = 2 /\ Len(pg.ret) = 3

\* A fetch of all pages returned nothing after one request for an empty page.
C13_WitnessEmpty ==
    /\ pg.optPage = 0 /\ pg.pc = "done" /\ ~pg.err
    /\ Len(pg.h_reqs) = 1 /\ pg.ret = <<>>

\* C14: a ListCommits call with page number p > 0 makes exactly one request,
\* which asks for page p with page size 100, and returns the entries of that
\* response whatever its Link header.
C14_ExplicitPage ==
    pg.optPage > 0 =>
        /\ Len(pg.h_reqs) <= 1
        /\ \A i \in 1..Len(pg.h_reqs) :
              /\ {"page", "per_page"} \subseteq DOMAIN pg.h_reqs[i]
              /\ pg.h_reqs[i]["page"] = pg.optPage /\ pg.h_reqs[i]["per_page"] = PerPage
        /\ (pg.pc = "done" /\ ~pg.err =>
              Len(pg.h_reqs) = 1 /\ pg.ret = Body(1, pg.h_resps[1].n))

\* C15: every request of a ListCommits call with a non-zero since carries
\* since, the instant's RFC3339 text in UTC; no request of a call with a zero
\* since carries since; the parameters of the call itself never hold page or
\* per_page.
C15_SinceOnEveryPage ==
    /\ DOMAIN pg.queryParams \subseteq {"since"}
    /\ \A i \in 1..Len(pg.h_reqs) :
          IF IsZero(pg.since)
          THEN "since" \notin DOMAIN pg.h_reqs[i]
          ELSE /\ "since" \in DOMAIN pg.h_reqs[i]
               /\ pg.h_reqs[i]["since"] = [sec |-> pg.since.sec, zone |-> 0]

\* A fetch of all pages with a since in another zone has made three requests.
C15_Witness ==
    /\ pg.optPage = 0 /\ pg.since.zone # 0 /\ Len(pg.h_reqs) = 3

\* The stages of SyncRepository that fetch from the remote platform.
FetchStages == {"meta", "list"}

\* C16: when SyncRepository has returned the error of the metadata fetch or
\* of the commit fetch, the repository rows and the commit rows are what they
\* would be had the call written nothing; a repository that had no row
\* before the call has none after it.
C16_FetchFailureStoreUntouched ==
    \A p \in Procs :
        sync[p].pc = "ret" /\ sync[p].err \in FetchStages =>
            /\ Store = h_pre[p]
            /\ (\A r \in h_pre[p].repositories : r.name # sync[p].name)
                  => (\A r \in repositories : r.name # sync[p].name)

\* The first sync of a repository failed at the commit fetch after its
\* transaction had written the repository row, and no row is stored.
C16_Witness ==
    \E p \in Procs :
        /\ sync[p].pc = "ret" /\ sync[p].err = "list" /\ sync[p].h_wrote >= 1
        /\ repositories = {} /\ Store = h_pre[p]

\* C17: the two remote fetches of a SyncRepository call are over before its
\* first write to the store, and its transaction spans only the upsert, the
\* inserts and the watermark update: no fetch runs with the transaction open
\* or after a write.
C17_FetchBeforePersist ==
    \A p \in Procs :
        sync[p].pc \in FetchStages => ~tx[p].active /\ tx[p].wrepos = {}

\* The step is a call of SyncRepository by w.
CallsSync(w) == sync'[w].pc = "begin" /\ sync[w].pc # "begin"

\* C18: a started worker makes one SyncRepository call, with the zero time as
\* since, before its first wait on the timer, and makes no other call before
\* that wait; when that call has returned, with or without an error, the
\* worker goes to the timer loop and nowhere else.
C18_WorkerStart ==
    [][\A w \in WorkerIds :
        /\ (wst[w].pc = "start" /\ wst'[w].pc # "start" =>
              /\ wst'[w].pc = "initial" /\ CallsSync(w)
              /\ sync'[w].since = ZeroTime /\ sync'[w].name = wst[w].name)
        /\ (wst[w].pc = "initial" => ~CallsSync(w) /\ wst'[w].pc \in {"initial", "waiting"})
        /\ (wst[w].pc = "initial" /\ wst'[w].pc = "waiting" => sync[w].pc = "ret")
        /\ (wst[w].pc = "initial" /\ sync[w].pc = "ret" /\ wst'[w] # wst[w]
              => wst'[w].pc = "waiting")
        /\ (wst'[w].pc = "waiting" /\ wst[w].pc \in {"off", "start"} => FALSE)]_vars

\* The initial sync of a worker, made with the zero time, has failed and the
\* worker is about to enter the timer loop.
C18_Witness ==
    \E w \in WorkerIds :
        wst[w].pc = "initial" /\ sync[w].pc = "ret" /\ sync[w].err # "ok"

\* C19: the SyncRepository call a tick makes has as since the watermark the
\* repository row holds when the tick reads it, the zero time when the row
\* has none: the watermark of the latest successful sync, or the value of the
\* latest reset.
C19_TickUsesStoredWatermark ==
    [][\A w \in WorkerIds :
        wst[w].pc = "ticked" /\ CallsSync(w) =>
            \E r \in repositories :
                /\ r.name = wst[w].name
                /\ sync'[w].name = r.name
                /\ sync'[w].since =
                      IF r.last_commit_fetched_at = NULL THEN ZeroTime
                      ELSE r.last_commit_fetched_at]_vars

\* A tick started a sync from a stored watermark later than the zero time.
C19_Witness ==
    \E w \in WorkerIds, r \in repositories :
        /\ wst[w].pc = "syncing" /\ sync[w].pc = "begin"
        /\ r.name = wst[w].name /\ r.last_commit_fetched_at # NULL
        /\ sync[w].since = r.last_commit_fetched_at /\ sync[w].since > ZeroTime

C21_CancelDoesNotAbort ==
    \A w \in WorkerIds : InFlight(w) => TRUE \in Ok(w)

\* The step is the end of a transaction scope of DbSession.
EndsScope == db.pc = "fn" /\ db'.pc = "ret"

\* C22: there is at most one commit row per (sha, repository); a stored
\* commit row stays as it is, with all its fields, through every step but a
\* ResetRepository, whatever the later scopes insert under its key.
C22_CommitRowsImmutable ==
    /\ [](\A c, d \in BagToSet(commits) :
             commits[c] = 1 /\ (CommitKey(c) = CommitKey(d) => c = d))
    /\ [][\A c \in BagToSet(commits) :
             \/ c \in BagToSet(commits') /\ commits'[c] = commits[c]
             \/ db.pc # "fn" /\ db' = DbIdle]_vars

\* A scope that inserted a commit under a stored key with another author has
\* committed, and the store is what it was.
C22_Witness ==
    /\ db.pc = "ret" /\ db.ret = "nil" /\ db.h_dup /\ db.h_done = MaxCalls
    /\ db.h_same

\* C23: there is at most one repository row per name; after an upsert of an
\* existing name the row has the new metadata, its old identity and its old
\* watermark, and the call returned that identity and that watermark; after
\* an upsert of a new name the row has an identity no other row has and no
\* watermark, and the call returned that identity and no watermark.
C23_UpsertContract ==
    LET rows == TxRepositories(DbSession)
    IN  /\ \A r, q \in rows : (r.name = q.name \/ r.id = q.id) => r = q
        /\ \A r, q \in repositories : (r.name = q.name \/ r.id = q.id) => r = q
        /\ db.out # NoRepo =>
             \E row \in rows :
                /\ row.name = db.out.name /\ row.meta = db.out.meta /\ row.id = db.out.id
                /\ db.out.last_commit_fetched_at = row.last_commit_fetched_at
                /\ IF db.h_prev = {}
                   THEN row.last_commit_fetched_at = NULL
                        /\ \A q \in db.h_store.repositories : q.id # row.id
                   ELSE \E prev \in db.h_prev :
                           /\ row.id = prev.id
                           /\ row.last_commit_fetched_at = prev.last_commit_fetched_at

\* An upsert of a stored name with a watermark changed the metadata and
\* returned the watermark.
C23_Witness ==
    /\ db.out # NoRepo /\ db.out.last_commit_fetched_at # NULL
    /\ \E prev \in db.h_prev : prev.meta # db.out.meta /\ prev.id = db.out.id
    /\ Cardinality(TxRepositories(DbSession)) = 2

\* The store with the writes of DbSession's open transaction applied.
Applied ==
    [repositories |-> ApplyRepos(repositories, tx[DbSession].wrepos),
     commits |-> commits (+) SetToBag(tx[DbSession].wcommits)]

\* What a scope does to the store and to the transaction, whatever it returns.
ScopeAtomic ==
    /\ tx'[DbSession] = NoTx
    /\ (db'.h_fn = "nil" => db'.ret \in {"nil", "commit error"})
    /\ (db'.ret = "nil" => db'.h_fn = "nil" /\ Store' = Applied)
    /\ (db'.ret # "nil" => Store' = Store /\ Store' = db.h_store /\ db'.h_same)

\* C24 as stated: WithTransaction commits when fn returned nil, and rolls
\* back when fn returned an error or panicked, returning that very error (the
\* panic goes on); after a rollback nothing the scope wrote is stored, and no
\* transaction is open when it returns.
C24_ReturnsErrorOfFn ==
    [][EndsScope =>
        /\ ScopeAtomic
        /\ (db'.h_fn = "err" => db'.ret = "fn error")
        /\ (db'.h_fn = "panic" => db'.ret = "panic")]_vars

\* C24: WithTransaction commits when fn returned nil, and rolls back when fn
\* returned an error or panicked; it then returns the error of fn, or, when
\* tx.Rollback() itself reported an error, the error it builds from the two
\* (the panic goes on); after a rollback nothing the scope wrote is stored,
\* and no transaction is open when it returns.
C24_TransactionScope ==
    [][EndsScope =>
        /\ ScopeAtomic
        /\ (db'.h_fn = "err" => db'.ret \in {"fn error", "rollback error"})
        /\ (db'.ret = "fn error" => db'.h_fn = "err")
        /\ (db'.h_fn = "panic" => db'.ret = "panic")]_vars

\* A scope whose two mutating calls returned nil was rolled back on the error
\* of fn, and the store is what it was before the scope.
C24_Witness ==
    /\ db.pc = "ret" /\ db.ret = "fn error" /\ db.h_done = MaxCalls
    /\ db.h_same /\ ~tx[DbSession].active

\* The rows of the repository of that name whose author is a.
RowsOfAuthor(name, a) ==
    {c \in BagToSet(commits) :
        /\ c.author_name = a
        /\ \E r \in repositories : r.name = name /\ r.id = c.repository_id}

\* C30: GetTopAuthors(repo, N) returns at most N entries, the N with the
\* largest counts when there are more authors, each an author of the
\* repository's stored commits with the number of that author's rows, no
\* author twice, counts never increasing, and no author left out has more
\* rows than one returned.
C30_TopAuthors ==
    LET res == db.top
        n == Len(res)
        authors == {a \in Authors : RowsOfAuthor(db.h_name, a) # {}}
    IN  db.h_name # "" =>
          /\ n <= db.h_limit
          /\ n = IF Cardinality(authors) < db.h_limit THEN Cardinality(authors) ELSE db.h_limit
          /\ \A i \in 1..n :
                /\ res[i].author_name \in authors
                /\ res[i].commit_count = Cardinality(RowsOfAuthor(db.h_name, res[i].author_name))
          /\ \A i, j \in 1..n : i # j => res[i].author_name # res[j].author_name
          /\ \A i, j \in 1..n : i < j => res[i].commit_count >= res[j].commit_count
          /\ \A a \in authors : \A i \in 1..n :
                (\A k \in 1..n : res[k].author_name # a)
                    => Cardinality(RowsOfAuthor(db.h_name, a)) <= res[i].commit_count

\* GetTopAuthors with limit 1 returned the author of two rows and left out
\* the author of one, while the other repository has rows too.
C30_Witness ==
    /\ db.h_limit = 1 /\ Len(db.top) = 1 /\ db.top[1].commit_count = 2
    /\ \E a \in Authors : Cardinality(RowsOfAuthor(db.h_name, a)) = 1
    /\ \E c \in BagToSet(commits) :
          \A r \in repositories : r.name = db.h_name => r.id # c.repository_id


\* C25: at any time at most one Poll Worker runs for a repository, whatever
\* the interleaving of main's bootstrap and of add-repository requests, and an
\* add of a stored repository is answered 409 having started no sync and no
\* worker.
C25_OneWorkerPerRepository ==
    /\ \A n \in DbNames : mon.running[n] <= 1
    /\ \A x \in MonHandlers :
          (mon.h[x].kind = "add" /\ mon.h[x].status = StatusConflict)
              => mon.h[x].pc = "done"

\* C28: a monitor request answered 200 with the success body leaves its repository with a Poll
\* Worker running in this process.
C28_MonitorStartsMonitoring ==
    \A x \in MonHandlers :
        (mon.h[x].kind = "monitor" /\ mon.h[x].ok)
            => mon.running[mon.h[x].name] >= 1


\* C27: GetRepository returns a NotFound error for a 404 response, an upstream
\* error distinct from NotFound for any other non-200 response and for a
\* transport failure, a failed-to-parse error for a 200 response whose body
\* does not decode, no repository value together with an error, and a
\* repository value only for a 200 response with a decodable body.
C27_GetRepositoryClassification ==
    fx.pc = "returned" =>
        LET r == fx.resp
        IN  /\ (r.transportOk /\ r.status = StatusNotFound)
                 => fx.err.ref = "REPOSITORY_NOT_FOUND"
            /\ (~r.transportOk \/ r.status \notin {StatusOK, StatusNotFound})
                 => (fx.err.kind = "app" /\ fx.err.ref = "GITHUB_API_ERROR")
            /\ (r.transportOk /\ r.status = StatusOK /\ r.readOk /\ ~r.body.json)
                 => (fx.err.kind = "app"
                     /\ fx.err.title = "Failed to parse GitHub API response")
            /\ (fx.err # NoError => fx.value = NULL)
            /\ (fx.value # NULL
                 <=> (r.transportOk /\ r.status = StatusOK /\ r.readOk /\ r.body.json))
            /\ (fx.value # NULL => fx.value = r.body.meta /\ fx.err = NoError)

\* A 404 response, and a 200 response with an undecodable body, were classified.
C27_Witness ==
    /\ fx.pc = "returned"
    /\ fx.resp.transportOk
    /\ fx.resp.status = StatusNotFound
    /\ fx.err.ref = "REPOSITORY_NOT_FOUND"

C27_WitnessMalformed ==
    /\ fx.pc = "returned"
    /\ fx.resp.transportOk /\ fx.resp.status = StatusOK /\ fx.resp.readOk
    /\ ~fx.resp.body.json
    /\ fx.err.title = "Failed to parse GitHub API response"

\* C29: WriteHTTPError answers a failure with status 500 for level Fatal, 400
\* for Error, 409 for Warning, 500 for an error that is no ApplicationError,
\* and never with a 2xx status, a not-found error of level Info included.
C29_SeverityToStatus ==
    fx.pc = "written" =>
        /\ (fx.err.kind = "plain" => fx.written.Status = StatusInternalServerError)
        /\ (fx.err.kind # "plain" /\ fx.err.level = "Fatal"
              => fx.written.Status = StatusInternalServerError)
        /\ (fx.err.kind # "plain" /\ fx.err.level = "Error"
              => fx.written.Status = StatusBadRequest)
        /\ (fx.err.kind # "plain" /\ fx.err.level = "Warning"
              => fx.written.Status = StatusConflict)
        /\ ~(fx.written.Status >= 200 /\ fx.written.Status < 300)


\* The stage a running SyncRepository call is about to execute.
StageAt(s) ==
    IF s.pc = "insert" THEN (IF s.todo = <<>> THEN "update" ELSE "insert") ELSE s.pc

\* The position after a stage that succeeded.
StageAfter(s) ==
    CASE s.pc = "begin" -> "meta"
      [] s.pc = "meta" -> "upsert"
      [] s.pc = "upsert" -> "list"
      [] s.pc = "list" -> "insert"
      [] s.pc = "insert" -> (IF s.todo = <<>> THEN "commit" ELSE "insert")
      [] OTHER -> "ret"

\* A step of p's running call: the stage succeeded and the call moved to the
\* next one, or it was the commit and the call returned nil, or the stage
\* failed and the call returned at once with an error out of `errs`.
StageStep(p, errs) ==
    (sync[p].pc \notin {"none", "ret"}
       /\ (sync'[p].pc # sync[p].pc \/ sync'[p].todo # sync[p].todo)) =>
        \/ /\ sync[p].pc # "commit"
           /\ sync'[p].pc = StageAfter(sync[p])
           /\ sync[p].pc = "insert" /\ sync[p].todo # <<>>
                 => sync'[p].todo = Tail(sync[p].todo)
        \/ /\ sync[p].pc = "commit"
           /\ sync'[p].pc = "ret" /\ sync'[p].ret = "nil" /\ sync'[p].err = "ok"
        \/ /\ sync'[p].pc = "ret"
           /\ sync'[p].err = StageAt(sync[p])
           /\ sync'[p].ret \in errs
           /\ ~tx'[p].active

C26_Witness ==
    \E p \in Procs :
        sync[p].pc = "ret" /\ sync[p].err = "list" /\ sync[p].ret = "fn error"

Exhausted == rl.remaining <= 0 /\ rlNow < rl.reset

\* C33: no transport attempt, first or retry, is sent at a moment when the
\* limiter holds remaining <= 0 and a reset time in the future.
C33_NoSendWhileExhausted ==
    [][\A c \in Callers : (Sends1(c) \/ Sends2(c)) => ~Exhausted]_vars

\* C34: the delay a caller sleeps before its retry is the Retry-After its own
\* 429 declared, and no delay when that response declared none.
C34_RetryDelayOfOwnResponse ==
    [][\A c \in Callers :
          ReadsRetryAfter(c) =>
              call'[c].wake = rlNow + (IF call[c].h_declared # NULL
                                       THEN call[c].h_declared ELSE 0)]_vars

\* C35: while a caller is suspended in the wait for the reset time the mutex
\* is free, so that a caller whose response has arrived can record it.
C35_WaitDoesNotHoldMutex ==
    \A c \in Callers : call[c].pc = "qsleep" => mu = "free"


\* C36: a caller that finds the quota exhausted sleeps once, until the reset
\* time it read on entering, then sends its request without checking the
\* quota again; with time advancing every such caller sends its request.
C36_BlockedCallProceeds ==
    /\ [](\A c \in Callers : call[c].pc = "qsleep" => call[c].wake = call[c].h_T)
    /\ [][\A c \in Callers :
            call[c].pc = "qsleep" /\ call'[c].pc # "qsleep"
                => (call'[c].pc = "send1" /\ rlNow >= call[c].h_T)]_vars
    /\ \A c \in Callers : (call[c].pc = "qsleep") ~> (call[c].pc = "resp1")

\* A caller that was blocked until a reset time ahead has sent its request
\* while the limiter still holds remaining <= 0.
C36_Witness ==
    \E c \in Callers :
        /\ call[c].pc = "resp1" /\ call[c].h_blocked /\ call[c].h_T > 0
        /\ rl.remaining <= 0


\* C40: updateFromHeaders sets remaining, reset and the retry-after delay
\* each to the integer its header holds, and leaves the field as it was when
\* the header is missing or does not parse; the low-quota warning changes
\* nothing.
C40_HeaderUpdateFrame ==
    fx.pc = "updated" =>
        /\ rl.remaining = (IF fx.hdr.remaining \in {"0", "1", "2"}
                           THEN Atoi(fx.hdr.remaining).val ELSE fx.h_rl.remaining)
        /\ rl.reset = (IF fx.hdr.reset \in {"0", "1", "2"}
                       THEN Atoi(fx.hdr.reset).val ELSE fx.h_rl.reset)
        /\ rl.retryAfter = (IF fx.hdr.retry \in {"0", "1", "2"}
                            THEN Atoi(fx.hdr.retry).val ELSE fx.h_rl.retryAfter)

\* A response with an unparsable remaining, no reset and a Retry-After given
\* as a date left a limiter that had been changed before as it was, and the
\* warning was logged.
C40_Witness ==
    /\ fx.pc = "updated"
    /\ fx.hdr = [remaining |-> "abc", reset |-> "",
                 retry |-> "Wed, 21 Oct 2015 07:28:00 GMT"]
    /\ fx.h_rl = [remaining |-> 1, reset |-> 2, retryAfter |-> 2]
    /\ rl = fx.h_rl
    /\ fx.warned


\* The stored rows GetCommits(name, since, until) has to return.
Wanted(q) ==
    {c \in BagToSet(commits) :
        /\ \E r \in repositories : r.name = q.name /\ r.id = c.repository_id
        /\ (q.since = NULL \/ c.author_date >= q.since)
        /\ (q.until = NULL \/ c.author_date <= q.until)}

\* C39: GetCommits(repo, since, until) returns each stored commit of that
\* repository whose author date lies in [since, until], bounds included and
\* an absent bound not restricting, once each and nothing else, with author
\* dates never increasing.
C39_GetCommits ==
    db.h_q.name # "" =>
        /\ {db.got[i] : i \in 1..Len(db.got)} = Wanted(db.h_q)
        /\ Len(db.got) = Cardinality(Wanted(db.h_q))
        /\ \A i, j \in 1..Len(db.got) :
              i < j => db.got[i].author_date >= db.got[j].author_date

\* GetCommits with both bounds at one date returned the one commit of that
\* date and left out an earlier and a later commit of the repository, while
\* the other repository holds a commit of that date too.
C39_Witness ==
    /\ db.h_q.since = 2 /\ db.h_q.until = 2
    /\ Len(db.got) = 1 /\ db.got[1].author_date = 2
    /\ \E c, d, e \in BagToSet(commits) :
          /\ c.repository_id = db.got[1].repository_id /\ c.author_date < 2
          /\ d.repository_id = db.got[1].repository_id /\ d.author_date > 2
          /\ e.repository_id # db.got[1].repository_id /\ e.author_date = 2


\* The watermark of the row of that name among rows (NULL without a row).
WatermarkOf(rows, name) ==
    LET hit == {r \in rows : r.name = name}
    IN  IF hit = {} THEN NULL ELSE (CHOOSE r \in hit : TRUE).last_commit_fetched_at

\* The step leaves the stored watermark and the stored commits of that name
\* as they were.
KeepsRepository(name) ==
    /\ WatermarkOf(repositories', name) = WatermarkOf(repositories, name)
    /\ CommitsOfName(Store', name) = CommitsOfName(Store, name)

\* C32: the stored watermark of a repository changes only at the commit of a
\* transaction scope whose UpdateRepositoryTx wrote it (it becomes the time
\* that statement was given, the time at the end of the sync, with or
\* without inserted commits) and in a ResetRepository of that name (it
\* becomes the given since); within a scope only UpdateRepositoryTx changes
\* the watermark the scope sees, and only that of the row its upsert
\* returned; the upsert, the inserts and a scope that ends otherwise leave
\* the stored watermark as it was; a scope leaves the watermark and commits
\* of every repository it did not write as they were, and a reset those of
\* every other repository.
C32_WatermarkFrame ==
    [][/\ db.pc = "fn" /\ db'.pc = "fn" =>
            /\ repositories' = repositories /\ commits' = commits
            /\ \A n \in DbNames :
                  WatermarkOf(TxRepositories(DbSession)', n)
                      # WatermarkOf(TxRepositories(DbSession), n) =>
                     /\ db'.out = NoRepo
                     /\ tx'[DbSession].wcommits = tx[DbSession].wcommits
                     /\ WatermarkOf(TxRepositories(DbSession)', n) = clock
                     /\ \E r \in TxRepositories(DbSession) : r.name = n /\ r.id = db.id
       /\ EndsScope =>
            \A n \in DbNames :
               \/ KeepsRepository(n)
               \/ /\ db'.ret = "nil"
                  /\ \E w \in tx[DbSession].wrepos : w.name = n
                  /\ WatermarkOf(repositories', n)
                        = WatermarkOf(TxRepositories(DbSession), n)
       /\ db.pc # "fn" =>
            \E name \in DbNames, since \in ResetSinces :
               /\ \A n \in DbNames \ {name} : KeepsRepository(n)
               /\ WatermarkOf(repositories', name)
                     \in {WatermarkOf(repositories, name), since}]_vars

\* A scope that upserted a repository and updated it, with no insert, has
\* committed: that row has the time of the update, and the other stored
\* repository still has its commit and no watermark.
C32_Witness ==
    /\ db.pc = "ret" /\ db.ret = "nil" /\ db.h_done = MaxCalls
    /\ WatermarkOf(repositories, "o/r") = clock
    /\ CommitsOfName(Store, "o/r") = EmptyBag
    /\ \E r \in repositories : r.name = "o/q" /\ r.last_commit_fetched_at = NULL
    /\ CommitsOfName(Store, "o/q") # EmptyBag


\* No SyncRepository call is running and every started worker waits for its
\* ticker.
Polling ==
    /\ \A p \in Procs : sync[p].pc = "none"
    /\ \A w \in WorkerIds : wst[w].pc = "waiting"

\* The upstream commits the next tick of a worker of that repository row
\* does not ask for: those dated before the row's watermark.
BehindWatermark(r) ==
    {s \in upstream : r.last_commit_fetched_at # NULL
                      /\ AuthorDate(s) < TickSince(r)}

\* C31: while the workers poll with no API request, between two syncs every
\* upstream commit dated before the stored watermark of its repository is
\* stored, so that no upstream commit is left for which no later tick asks.
C31_NoCommitBehindWatermark ==
    Polling =>
        \A r \in GetRepository(DefaultRepository) :
            \A s \in BehindWatermark(r) :
                [sha |-> s, repository_id |-> r.id] \in StoredKeys

\* Once the workers poll, an upstream commit dated before the stored
\* watermark that is not stored is not stored by any later step.
C31_MissedForGood ==
    [][\A r \in GetRepository(DefaultRepository) :
          \A s \in BehindWatermark(r) :
             (Polling /\ [sha |-> s, repository_id |-> r.id] \notin StoredKeys)
                 => [sha |-> s, repository_id |-> r.id]
                        \notin {CommitKey(c) : c \in BagToSet(commits')}]_vars


\* C37: a worker that was started finds, under the name it looks up
\* (owner + "/" + name), a stored row with a watermark: the row the
\* SyncRepository calls of that owner and name wrote.
C37_WorkerFindsItsRow ==
    \A w \in WorkerIds :
        wst[w].pc # "off" =>
            \E r \in GetRepository(wst[w].name) : r.last_commit_fetched_at # NULL


\* A worker started under the spelling the upstream reports finds its row
\* with a watermark.
C37_SameSpellingFindsRow ==
    \A w \in WorkerIds :
        wst[w].pc # "off" /\ wst[w].name = FullName(wst[w].name) =>
            \E r \in GetRepository(wst[w].name) : r.last_commit_fetched_at # NULL


\* The shas of a sequence of listed commits.
ShasOf(todo) == {todo[i] : i \in 1..Len(todo)}

\* The commit rows a step adds to the table.
AddedRows ==
    {c \in BagToSet(commits') :
        c \notin BagToSet(commits) \/ commits'[c] > commits[c]}

\* C38: the SyncRepository of an add request runs with the zero time and
\* lists every upstream commit; a worker is started only by an add request
\* whose SyncRepository succeeded, under the request's owner and name, and
\* after that call returned; the worker's start runs SyncRepository with the
\* zero time again, which lists every upstream commit again and never runs
\* while the request's call does; the rows that second call adds are of
\* commits pushed upstream after the first call listed them.
C38_AddSyncsTwice ==
    /\ [](/\ sync[AddHandler].since = ZeroTime
          /\ \A w \in WorkerIds :
                /\ wst[w].pc # "off" => add.pc = "created" /\ wst[w].name = add.name
                /\ wst[w].pc = "initial" => sync[w].pc # "none" /\ sync[w].since = ZeroTime
                /\ sync[w].pc # "none" => sync[AddHandler].pc = "none")
    /\ [][/\ \A p \in {AddHandler} \cup {w \in WorkerIds : wst[w].pc = "initial"} :
                sync[p].pc = "list" /\ sync'[p].pc = "insert" =>
                    ShasOf(sync'[p].todo) = upstream
          /\ \A w \in WorkerIds :
                wst[w].pc = "initial" =>
                    \A c \in AddedRows : c.sha \in upstream \ add.h_up]_vars

\* The initial sync of the worker an add request started has returned nil:
\* the store holds the commit the request's sync listed, once, and the one
\* pushed since.
C38_Witness ==
    /\ add.pc = "created" /\ add.h_up = {1}
    /\ \E w \in WorkerIds :
          /\ wst[w].pc = "initial" /\ sync[w].pc = "ret" /\ sync[w].err = "ok"
          /\ wst[w].name = "O/R"
    /\ {c.sha : c \in BagToSet(commits)} = {1, 2}
    /\ \A c \in BagToSet(commits) : commits[c] = 1

====
